---- MODULE Spec2Model ----
(***************************************************************************)
(* Wealth-distribution simulation (NetLogo "Wealth Distribution" port).    *)
(*                                                                         *)
(* The specifications of this module include:                                   *)
(*   Spec       one World: World(cfg) is constructed, then tick(t) is      *)
(*              called with arbitrary tick indices;                        *)
(*   VizSpec    the interactive visualizer: START/STOP, SETUP and the      *)
(*              animation timer driving one World;                         *)
(*   BatchSpec  run_batch_simulations: tasks fanned out over a worker      *)
(*              pool, each worker running _run_single_simulation_for_batch *)
(*              on its own World, results collected and written.           *)
(*                                                                         *)
(* Numbers.  Python floats are modelled by exact arithmetic:               *)
(*   - wealth is kept in units of 1/WealthUnit, WealthUnit being the least *)
(*     common multiple of the possible head counts on one patch, so that   *)
(*     every harvest share grain/k is a whole number of units;             *)
(*   - ratios (Gini index, Lorenz coordinates) are normalised fractions    *)
(*     [n, d];                                                             *)
(*   - the setup diffusion runs in fixed point with FixedOne units per     *)
(*     grain and round-to-nearest division.  The integer capacities it     *)
(*     yields were compared with the float code on every grid up to 4 x 3, *)
(*     every best-land subset and max_grain in {0..6, 8, 10, 50}: equal in *)
(*     all 50500 cases.                                                    *)
(***************************************************************************)
EXTENDS Integers, Sequences, FiniteSets, TLC

VARIABLES
    pc,            \* World lifecycle: "new" | "ready" | "failed"
    cfg,           \* keyword arguments handed to World(...)
    world,         \* the World object (fields of self), once constructed
    error,         \* exception raised by World(...): "none" | "ValueError"
    tick_count,    \* argument of the last tick call (-1: none yet)
    result,        \* dict returned by the last tick call
    ticks,         \* number of tick calls made so far
    bpc,           \* run_batch_simulations: "init" | "pool" | "written" | "aborted"
    args,          \* its arguments and the host's cpu_count()
    num_processes, \* size of the worker pool
    queue,         \* tasks not yet handed to a worker, in task order
    workers,       \* per worker process: what it is running, and its RNG
    all_run_results, \* result slot of every task (pool.map's list)
    runs,          \* per run id: how often, where and on what it was executed
    completed,     \* run ids in the order the runs finished
    csv_rows,      \* rows handed to the csv writer, in order
    viz            \* the InteractiveWealthVisualizer's fields, once created

worldVars == <<pc, cfg, world, error, tick_count, result, ticks>>
batchVars == <<bpc, args, num_processes, queue, workers, all_run_results,
               runs, completed, csv_rows>>
vizVars == <<viz>>
vars == <<pc, cfg, world, error, tick_count, result, ticks,
          bpc, args, num_processes, queue, workers, all_run_results,
          runs, completed, csv_rows, viz>>

----------------------------------------------------------------------------
(* Bounds of the model *)

MaxWidth == 2
MaxHeight == 2
WideWidth == 3
MaxTurtles == 2
MaxVision == 1
MaxMetabolism == 2
MaxLife == 2
MaxUniformWealth == 1
CfgMaxGrain == 4
MaxGrainGrown == 4
MaxInterval == 2
MaxTickIndex == 1
MaxTicks == 2
MaxRuns == 3
MaxCpu == 3
MaxBatchTicks == 2
\* randint(0, 50) of _init_turtle is drawn from 0..RandWealthMax
MaxPopulation == 5
MaxMixed == 3
PhaseSize == 3
DiffuseSize == 5
MaxVizTicks == 2
MaxSteps == 2
MaxGrainCells == 2
PhaseVision == 2
RandWealthMax == 1

(* Program constants *)

SetupRestoreRounds == 5
SetupDiffuseRounds == 10
DiffusionRateNum == 1
DiffusionRateDen == 4
LorenzMaxX == 100

----------------------------------------------------------------------------
(* Arithmetic helpers *)

Min(a, b) == IF a <= b THEN a ELSE b
Max(a, b) == IF a >= b THEN a ELSE b

\* int(a / b) for b > 0: truncation toward zero
TruncDiv(a, b) == IF a >= 0 THEN a \div b ELSE -((-a) \div b)

\* a / b rounded to the nearest unit, a >= 0, b > 0
RoundDiv(a, b) == (2 * a + b) \div (2 * b)

RECURSIVE GCD(_, _)
GCD(a, b) == IF b = 0 THEN a ELSE GCD(b, a % b)

Abs(a) == IF a >= 0 THEN a ELSE -a

\* the fraction n / d (d > 0) in lowest terms
Rat(n, d) ==
    LET g == GCD(Abs(n), d)
    IN  [n |-> n \div g, d |-> d \div g]

RatLeq(p, q) == p.n * q.d <= q.n * p.d

RECURSIVE LCMUpTo(_)
LCMUpTo(k) ==
    IF k <= 1 THEN 1
    ELSE LET l == LCMUpTo(k - 1) IN (l * k) \div GCD(l, k)

\* wealth is counted in units of 1 / WealthUnit, a multiple of every number
\* of turtles that can share a patch
WealthUnit == LCMUpTo(Max(MaxTurtles, MaxPopulation))

\* fixed-point unit of the setup diffusion
FixedOne == 2 ^ 20

RECURSIVE SeqSum(_)
SeqSum(s) == IF s = <<>> THEN 0 ELSE Head(s) + SeqSum(Tail(s))

RECURSIVE SetSum(_, _)
SetSum(S, f) ==
    IF S = {} THEN 0
    ELSE LET x == CHOOSE y \in S : TRUE IN f[x] + SetSum(S \ {x}, f)

RECURSIVE Insert(_, _)
Insert(x, s) ==
    IF s = <<>> THEN <<x>>
    ELSE IF x <= Head(s) THEN <<x>> \o s
    ELSE <<Head(s)>> \o Insert(x, Tail(s))

\* sorted(s) for a sequence of numbers
RECURSIVE SortAsc(_)
SortAsc(s) == IF s = <<>> THEN <<>> ELSE Insert(Head(s), SortAsc(Tail(s)))

SeqMax(s) == CHOOSE m \in {s[i] : i \in DOMAIN s} : \A i \in DOMAIN s : s[i] <= m
SeqMin(s) == CHOOSE m \in {s[i] : i \in DOMAIN s} : \A i \in DOMAIN s : m <= s[i]

\* the first k elements of s (s[:k], k >= 0)
Prefix(s, k) == SubSeq(s, 1, Min(k, Len(s)))

\* the function f on 1..n as an explicit sequence
RECURSIVE StrictFrom(_, _, _)
StrictFrom(f, i, n) == IF i > n THEN <<>> ELSE <<f[i]>> \o StrictFrom(f, i + 1, n)

Strict(f, n) == StrictFrom(f, 1, n)

\* the function f on the set S as an explicit table
RECURSIVE Tabulate(_, _)
Tabulate(S, f) ==
    IF S = {} THEN <<>>
    ELSE LET x == CHOOSE y \in S : TRUE IN (x :> f[x]) @@ Tabulate(S \ {x}, f)

----------------------------------------------------------------------------
(* Python floats (IEEE binary64, round to nearest even), for the metrics.   *)
(* A natural number is a sequence of limbs of LimbBits bits, least          *)
(* significant first, without high zero limbs; a float is sign * m * 2^e     *)
(* with m odd, or FloatZero.                                                *)

\* bits of the significand of a Python float
FloatBits == 53

\* bits per limb of the natural numbers below
LimbBits == 14

LimbBase == 2 ^ LimbBits

RECURSIVE Trim(_)
Trim(a) ==
    IF a = <<>> \/ a[Len(a)] # 0 THEN a ELSE Trim(SubSeq(a, 1, Len(a) - 1))

RECURSIVE NatLimbs(_)
NatLimbs(n) ==
    IF n = 0 THEN <<>> ELSE <<n % LimbBase>> \o NatLimbs(n \div LimbBase)

RECURSIVE LimbsAdd(_, _, _)
LimbsAdd(a, b, carry) ==
    IF a = <<>> /\ b = <<>> THEN (IF carry = 0 THEN <<>> ELSE <<carry>>)
    ELSE LET x == IF a = <<>> THEN 0 ELSE Head(a)
             y == IF b = <<>> THEN 0 ELSE Head(b)
             t == x + y + carry
         IN  <<t % LimbBase>> \o LimbsAdd(IF a = <<>> THEN a ELSE Tail(a),
                                           IF b = <<>> THEN b ELSE Tail(b),
                                           t \div LimbBase)

\* a - b - borrow for a >= b + borrow
RECURSIVE LimbsSubFrom(_, _, _)
LimbsSubFrom(a, b, borrow) ==
    IF a = <<>> THEN <<>>
    ELSE LET y == IF b = <<>> THEN 0 ELSE Head(b)
             t == Head(a) - y - borrow
         IN  <<t % LimbBase>> \o LimbsSubFrom(Tail(a),
                                               IF b = <<>> THEN b ELSE Tail(b),
                                               IF t < 0 THEN 1 ELSE 0)

LimbsSub(a, b) == Trim(LimbsSubFrom(a, b, 0))

LimbsLess(a, b) ==
    \/ Len(a) < Len(b)
    \/ /\ Len(a) = Len(b)
       /\ \E i \in 1 .. Len(a) :
             a[i] < b[i] /\ \A j \in i + 1 .. Len(a) : a[j] = b[j]

\* a * c + carry for a natural number c < 2^16
RECURSIVE LimbsMulNat(_, _, _)
LimbsMulNat(a, c, carry) ==
    IF a = <<>> THEN NatLimbs(carry)
    ELSE LET t == Head(a) * c + carry
         IN  <<t % LimbBase>> \o LimbsMulNat(Tail(a), c, t \div LimbBase)

\* the number of bits of a limb x > 0, and of a natural number
LimbLength(x) == CHOOSE k \in 1 .. LimbBits : 2 ^ (k - 1) <= x /\ x < 2 ^ k
BitLength(a) ==
    IF a = <<>> THEN 0 ELSE (Len(a) - 1) * LimbBits + LimbLength(a[Len(a)])

\* a * 2^k
ShiftLeft(a, k) ==
    IF a = <<>> THEN a
    ELSE [i \in 1 .. k \div LimbBits |-> 0]
         \o Trim(LimbsMulNat(a, 2 ^ (k % LimbBits), 0))

\* a \div 2^k
ShiftRight(a, k) ==
    LET j == k \div LimbBits
        b == k % LimbBits
        Limb(i) == IF i <= Len(a) THEN a[i] ELSE 0
    IN  Trim([i \in 1 .. Len(a) - j |->
                (Limb(i + j) \div 2 ^ b)
                + (Limb(i + j + 1) % 2 ^ b) * 2 ^ (LimbBits - b)])

\* a % 2^k
LowBits(a, k) ==
    LET j == k \div LimbBits
        b == k % LimbBits
    IN  IF Len(a) <= j THEN a
        ELSE Trim(SubSeq(a, 1, j) \o <<a[j + 1] % 2 ^ b>>)

\* the number of low zero bits of a limb x > 0, and of a # <<>>
LimbLowZeros(x) == CHOOSE k \in 0 .. LimbBits : x % 2 ^ k = 0 /\ x % 2 ^ (k + 1) # 0
LowZeros(a) ==
    LET j == CHOOSE i \in 1 .. Len(a) : a[i] # 0 /\ \A l \in 1 .. i - 1 : a[l] = 0
    IN  (j - 1) * LimbBits + LimbLowZeros(a[j])

FloatZero == [sign |-> 0, m |-> <<>>, e |-> 0]

\* sign * a * 2^e in canonical form
Canon(sign, a, e) ==
    IF a = <<>> THEN FloatZero
    ELSE [sign |-> sign, m |-> ShiftRight(a, LowZeros(a)), e |-> e + LowZeros(a)]

\* a rounded to FloatBits significant bits, ties to even
RoundNearestEven(a) ==
    IF BitLength(a) <= FloatBits THEN [m |-> a, shift |-> 0]
    ELSE LET k == BitLength(a) - FloatBits
             kept == ShiftRight(a, k)
             rest == LowBits(a, k)
             half == ShiftLeft(<<1>>, k - 1)
             up == LimbsLess(half, rest) \/ (rest = half /\ kept[1] % 2 = 1)
         IN  [m |-> IF up THEN LimbsAdd(kept, <<1>>, 0) ELSE kept, shift |-> k]

\* the float nearest to sign * a * 2^e
MakeFloat(sign, a, e) ==
    LET r == RoundNearestEven(Trim(a))
    IN  Canon(sign, r.m, e + r.shift)

\* x + y
FloatAdd(x, y) ==
    IF x.sign = 0 THEN y
    ELSE IF y.sign = 0 THEN x
    ELSE LET e == Min(x.e, y.e)
             a == ShiftLeft(x.m, x.e - e)
             b == ShiftLeft(y.m, y.e - e)
         IN  IF x.sign = y.sign THEN MakeFloat(x.sign, LimbsAdd(a, b, 0), e)
             ELSE IF a = b THEN FloatZero
             ELSE IF LimbsLess(a, b) THEN MakeFloat(y.sign, LimbsSub(b, a), e)
             ELSE MakeFloat(x.sign, LimbsSub(a, b), e)

\* c * x for an int c
FloatMulInt(c, x) ==
    IF c = 0 \/ x.sign = 0 THEN FloatZero
    ELSE MakeFloat((IF c < 0 THEN -1 ELSE 1) * x.sign,
                   LimbsMulNat(x.m, Abs(c), 0), x.e)

\* long division of a natural number, given most significant limb first,
\* by d < 2^16: the quotient, least significant limb first, and the
\* remainder
RECURSIVE LongDivision(_, _, _, _)
LongDivision(high_first, d, quotient, r) ==
    IF high_first = <<>> THEN [q |-> Trim(quotient), r |-> r]
    ELSE LET t == r * LimbBase + Head(high_first)
         IN  LongDivision(Tail(high_first), d, <<t \div d>> \o quotient, t % d)

Reverse(s) == [i \in 1 .. Len(s) |-> s[Len(s) + 1 - i]]

\* n / d for ints n and d > 0: the float nearest to the quotient
FloatOfRatio(n, d) ==
    IF n = 0 THEN FloatZero
    ELSE LET s == FloatBits + 2 + BitLength(NatLimbs(d))
             dv == LongDivision(Reverse(ShiftLeft(NatLimbs(Abs(n)), s)), d, <<>>, 0)
             inexact == IF dv.r = 0 THEN 0 ELSE 1
         IN  MakeFloat(IF n < 0 THEN -1 ELSE 1, LimbsMulNat(dv.q, 2, inexact),
                       0 - s - 1)

\* x < y
FloatLess(x, y) == FloatAdd(x, [y EXCEPT !.sign = 0 - @]).sign < 0

----------------------------------------------------------------------------
(* Patch *)

\* Patch(x, y, max_grain): current grain starts at the maximum
Patch(x, y, max_grain) ==
    [x |-> x, y |-> y, max_grain |-> max_grain, current_grain |-> max_grain]

\* grow_grain without the cap at max_grain
GrowGrainUncapped(p, growth_amount) ==
    IF p.current_grain < p.max_grain
    THEN [p EXCEPT !.current_grain = p.current_grain + growth_amount]
    ELSE p

\* grow_grain raising the capacity with the grain
GrowGrainExtending(p, growth_amount) ==
    [p EXCEPT !.current_grain = p.current_grain + growth_amount,
              !.max_grain = Max(p.max_grain, p.current_grain + growth_amount)]

\* Patch.grow_grain(growth_amount)
GrowGrain(p, growth_amount) ==
    IF p.current_grain < p.max_grain
    THEN [p EXCEPT !.current_grain = Min(p.max_grain, p.current_grain + growth_amount)]
    ELSE p

\* Patch.get_grain_amount(): int(current_grain)
GetGrainAmount(p) == TruncDiv(p.current_grain, 1)

----------------------------------------------------------------------------
(* World: grid initialisation *)

Cells(width, height) == (0 .. width - 1) \X (0 .. height - 1)

InGrid(c, width, height) ==
    /\ 0 <= c[1] /\ c[1] < width
    /\ 0 <= c[2] /\ c[2] < height

\* the valid 4-connected neighbours of cell c
Neighbors(c, width, height) ==
    {n \in {<<c[1], c[2] + 1>>, <<c[1], c[2] - 1>>,
            <<c[1] + 1, c[2]>>, <<c[1] - 1, c[2]>>} : InGrid(n, width, height)}

\* World._diffuse_grain(rate) on the grain map g (fixed point), rate = num/den:
\* every cell keeps (1 - rate) of its grain and hands rate * grain, divided
\* by the number of its valid neighbours, to each of them; all reads are of
\* the pre-pass grain g
DiffuseGrain(g, width, height, num, den) ==
    LET given == Tabulate(DOMAIN g, [c \in DOMAIN g |->
                    IF Neighbors(c, width, height) = {} THEN 0
                    ELSE RoundDiv(g[c] * num,
                                  den * Cardinality(Neighbors(c, width, height)))])
    IN  Tabulate(DOMAIN g, [c \in DOMAIN g |->
            RoundDiv(g[c] * (den - num), den)
            + SetSum(Neighbors(c, width, height), given)])

\* what the cell visited at each step of order keeps and gives
Visits(visit, order) ==
    Tabulate(1 .. Len(order), [k \in 1 .. Len(order) |-> visit[order[k]]])

\* new_grain after the visits: at every cell what was there plus, visit
\* after visit, kept_grain at the cell visited and grain_per_neighbor at
\* each of its neighbours
Accumulate(new_grain, visits) ==
    Tabulate(DOMAIN new_grain, [p \in DOMAIN new_grain |->
        new_grain[p] + SeqSum([k \in DOMAIN visits |->
            (IF p = visits[k].cell THEN visits[k].kept_grain ELSE 0)
            + (IF p \in visits[k].neighbors THEN visits[k].grain_per_neighbor
               ELSE 0)])])

\* a pass giving each in-grid neighbour a quarter of the diffused grain
DiffuseLoopQuarterShares(g, new_grain, order, width, height, num, den) ==
    Accumulate(new_grain, Visits(
        Tabulate(DOMAIN g, [c \in DOMAIN g |->
            [cell |-> c,
             neighbors |-> Neighbors(c, width, height),
             kept_grain |-> RoundDiv(g[c] * (den - num), den),
             grain_per_neighbor |-> RoundDiv(g[c] * num, den * 4)]]),
        order))

\* the loop of _diffuse_grain over the cells in the given order: what a
\* cell keeps and gives is computed from g, the grain before the pass,
\* and accumulated in new_grain
DiffuseLoop(g, new_grain, order, width, height, num, den) ==
    Accumulate(new_grain, Visits(
        Tabulate(DOMAIN g, [c \in DOMAIN g |->
            LET neighbors == Neighbors(c, width, height)
            IN  [cell |-> c,
                 neighbors |-> neighbors,
                 kept_grain |-> RoundDiv(g[c] * (den - num), den),
                 grain_per_neighbor |->
                     IF neighbors = {} THEN 0
                     ELSE RoundDiv(g[c] * num, den * Cardinality(neighbors))]]),
        order))

\* for y in range(height): for x in range(width)
RowMajor(width, height) ==
    [k \in 1 .. width * height |-> <<(k - 1) % width, (k - 1) \div width>>]

RECURSIVE DiffuseTimes(_, _, _, _)
DiffuseTimes(n, g, width, height) ==
    IF n = 0 THEN g
    ELSE DiffuseTimes(n - 1,
                      DiffuseGrain(g, width, height, DiffusionRateNum, DiffusionRateDen),
                      width, height)

\* one round of phase 1: patches whose max_grain is the global maximum are
\* restored to it, then one diffusion pass
RECURSIVE RestoreAndDiffuse(_, _, _, _, _, _)
RestoreAndDiffuse(n, g, maxg, max_grain, width, height) ==
    IF n = 0 THEN g
    ELSE LET restored == Tabulate(DOMAIN g, [c \in DOMAIN g |->
                            IF maxg[c] = max_grain THEN max_grain * FixedOne ELSE g[c]])
         IN  RestoreAndDiffuse(n - 1,
                 DiffuseGrain(restored, width, height, DiffusionRateNum, DiffusionRateDen),
                 maxg, max_grain, width, height)

\* World._apply_setup_diffusion: the grain of every patch after the two
\* phases, rounded down to a whole number and clamped at 0
ApplySetupDiffusion(g, maxg, max_grain, width, height) ==
    LET phase1 == RestoreAndDiffuse(SetupRestoreRounds, g, maxg, max_grain, width, height)
        phase2 == DiffuseTimes(SetupDiffuseRounds, phase1, width, height)
    IN  Tabulate(DOMAIN g, [c \in DOMAIN g |-> Max(0, TruncDiv(phase2[c], FixedOne))])

\* num_best_patches = int(total_patches * (percent_best_land / 100.0))
NumBestPatches(c) == TruncDiv(c.width * c.height * c.percent_best_land, 100)

\* sample(all_positions, k) raises ValueError unless 0 <= k <= len(all_positions)
SampleOk(c) ==
    /\ 0 <= NumBestPatches(c)
    /\ NumBestPatches(c) <= Cardinality(Cells(c.width, c.height))

\* the possible values of best_land_positions
BestLandChoices(c) ==
    {S \in SUBSET Cells(c.width, c.height) : Cardinality(S) = NumBestPatches(c)}

\* World._init_grid with best_land_positions = best: the grid of patches
InitGrid(c, best) ==
    LET cells == Cells(c.width, c.height)
        maxg == Tabulate(cells, [p \in cells |-> IF p \in best THEN c.max_grain ELSE 0])
        g0 == Tabulate(cells, [p \in cells |-> maxg[p] * FixedOne])
        final == ApplySetupDiffusion(g0, maxg, c.max_grain, c.width, c.height)
    IN  Tabulate(cells, [p \in cells |-> Patch(p[1], p[2], final[p])])

----------------------------------------------------------------------------
(* WealthClassifier *)

\* classify_agent with the thirds taken by integer division, max_wealth // 3
ClassifyAgentTruncated(agent_wealth, max_wealth) ==
    IF max_wealth = 0 THEN "poor"
    ELSE IF agent_wealth <= (max_wealth \div (3 * WealthUnit)) * WealthUnit THEN "poor"
    ELSE IF agent_wealth <= ((2 * max_wealth) \div (3 * WealthUnit)) * WealthUnit
    THEN "middle_class"
    ELSE "rich"

\* WealthClassifier.classify_agent(agent_wealth, max_wealth); both in the
\* same unit, the comparisons with max_wealth / 3 and max_wealth * 2 / 3
\* are made on exact thirds
ClassifyAgent(agent_wealth, max_wealth) ==
    IF max_wealth = 0 THEN "poor"
    ELSE IF 3 * agent_wealth <= max_wealth THEN "poor"
    ELSE IF 3 * agent_wealth <= 2 * max_wealth THEN "middle_class"
    ELSE "rich"

\* WealthClassifier.get_class_distribution(wealth_classes)
GetClassDistribution(wealth_classes) ==
    [poor |-> Len(SelectSeq(wealth_classes, LAMBDA k : k = "poor")),
     middle_class |-> Len(SelectSeq(wealth_classes, LAMBDA k : k = "middle_class")),
     rich |-> Len(SelectSeq(wealth_classes, LAMBDA k : k = "rich"))]

----------------------------------------------------------------------------
(* Turtle *)

\* Turtle(id, x, y, metabolism, vision, life_expectancy, initial_wealth)
Turtle(id, x, y, metabolism, vision, life_expectancy, initial_wealth) ==
    [id |-> id, x |-> x, y |-> y, metabolism |-> metabolism, vision |-> vision,
     life_expectancy |-> life_expectancy, age |-> 0, wealth |-> initial_wealth,
     wealth_class |-> "poor"]

\* North, East, South, West
Directions == <<<<0, -1>>, <<1, 0>>, <<0, 1>>, <<-1, 0>>>>

\* _grain_ahead looking on from the opposite edge when it leaves the world
RECURSIVE GrainAheadFromWrapped(_, _, _, _)
GrainAheadFromWrapped(t, w, d, distance) ==
    IF distance > t.vision THEN 0
    ELSE LET look == <<(t.x + d[1] * distance) % w.width,
                       (t.y + d[2] * distance) % w.height>>
         IN  GetGrainAmount(w.grid[look]) + GrainAheadFromWrapped(t, w, d, distance + 1)

\* Turtle._grain_ahead: the loop over distance, stopped at the first cell
\* outside the world
RECURSIVE GrainAheadFrom(_, _, _, _)
GrainAheadFrom(t, w, d, distance) ==
    IF distance > t.vision THEN 0
    ELSE LET look == <<t.x + d[1] * distance, t.y + d[2] * distance>>
         IN  IF InGrid(look, w.width, w.height)
             THEN GetGrainAmount(w.grid[look]) + GrainAheadFrom(t, w, d, distance + 1)
             ELSE 0

GrainAhead(t, w, d) == GrainAheadFrom(t, w, d, 1)

\* the loop of Turtle.move taking the latest of the best directions
RECURSIVE BestDirectionFromLatest(_, _, _, _, _)
BestDirectionFromLatest(t, w, k, best_direction, best_total_grain) ==
    IF k > Len(Directions) THEN best_direction
    ELSE LET total_grain == GrainAhead(t, w, Directions[k])
         IN  IF total_grain >= best_total_grain
             THEN BestDirectionFromLatest(t, w, k + 1, Directions[k], total_grain)
             ELSE BestDirectionFromLatest(t, w, k + 1, best_direction, best_total_grain)

\* the loop of Turtle.move over the four directions; <<>> stands for None
RECURSIVE BestDirectionFrom(_, _, _, _, _)
BestDirectionFrom(t, w, k, best_direction, best_total_grain) ==
    IF k > Len(Directions) THEN best_direction
    ELSE LET total_grain == GrainAhead(t, w, Directions[k])
         IN  IF total_grain > best_total_grain
             THEN BestDirectionFrom(t, w, k + 1, Directions[k], total_grain)
             ELSE BestDirectionFrom(t, w, k + 1, best_direction, best_total_grain)

\* Turtle.move(world)
Move(t, w) ==
    LET best_direction == BestDirectionFrom(t, w, 1, <<>>, -1)
    IN  IF best_direction = <<>> THEN t
        ELSE LET new_x == t.x + best_direction[1]
                 new_y == t.y + best_direction[2]
             IN  IF InGrid(<<new_x, new_y>>, w.width, w.height)
                 THEN [t EXCEPT !.x = new_x, !.y = new_y]
                 ELSE t

\* eat consuming nothing
EatNothing(t) == t

\* Turtle.eat
Eat(t) == [t EXCEPT !.wealth = @ - t.metabolism * WealthUnit]

\* Turtle.increment_age
IncrementAge(t) == [t EXCEPT !.age = @ + 1]

\* is_dead with a strict comparison of the wealth
IsDeadStrict(t) == t.wealth < 0 \/ t.age >= t.life_expectancy

\* is_dead looking at the wealth only
IsDeadOfWantOnly(t) == t.wealth <= 0

\* is_dead letting a turtle live through the tick in which its age reaches
\* its life expectancy
IsDeadLate(t) == t.wealth <= 0 \/ t.age > t.life_expectancy

\* Turtle.is_dead
IsDead(t) == t.wealth <= 0 \/ t.age >= t.life_expectancy

----------------------------------------------------------------------------
(* World: turtles *)

\* the draws with randint(0, max_metabolism) for the metabolism
InitTurtleDrawsFromZero(w, inheritance) ==
    [metabolism : 0 .. w.max_metabolism,
     vision : 1 .. w.max_vision,
     life_expectancy : w.min_life_expectancy .. w.max_life_expectancy,
     bonus : IF w.uniform_wealth_flag \/ inheritance > 0
             THEN {0} ELSE 0 .. RandWealthMax]

\* the values _init_turtle draws: randint(1, max_metabolism),
\* randint(1, max_vision), randint(min_life_expectancy, max_life_expectancy)
\* and, under the third wealth policy only, randint(0, 50)
InitTurtleDraws(w, inheritance) ==
    [metabolism : 1 .. w.max_metabolism,
     vision : 1 .. w.max_vision,
     life_expectancy : w.min_life_expectancy .. w.max_life_expectancy,
     bonus : IF w.uniform_wealth_flag \/ inheritance > 0
             THEN {0} ELSE 0 .. RandWealthMax]

\* randint(a, b) raises ValueError when a > b
RandintRaises(w) ==
    \/ w.max_metabolism < 1
    \/ w.max_vision < 1
    \/ w.min_life_expectancy > w.max_life_expectancy

\* _init_turtle testing the inheritance before the uniform_wealth_flag
InitTurtleInheritanceFirst(w, i, x, y, inheritance, d) ==
    LET initial_wealth ==
            IF inheritance > 0 THEN inheritance
            ELSE IF w.uniform_wealth_flag THEN w.uniform_wealth * WealthUnit
            ELSE (d.metabolism + d.bonus) * WealthUnit
    IN  Turtle(i, x, y, d.metabolism, d.vision, d.life_expectancy, initial_wealth)

\* World._init_turtle(i, x, y, inheritance) with the drawn values d
InitTurtle(w, i, x, y, inheritance, d) ==
    LET initial_wealth ==
            IF w.uniform_wealth_flag THEN w.uniform_wealth * WealthUnit
            ELSE IF inheritance > 0 THEN inheritance
            ELSE (d.metabolism + d.bonus) * WealthUnit
    IN  Turtle(i, x, y, d.metabolism, d.vision, d.life_expectancy, initial_wealth)

\* World.get_max_wealth / get_min_wealth / get_total_wealth
Wealths(turtles) == Strict([i \in 1 .. Len(turtles) |-> turtles[i].wealth], Len(turtles))
GetMaxWealth(turtles) == IF turtles = <<>> THEN 0 ELSE SeqMax(Wealths(turtles))
GetMinWealth(turtles) == IF turtles = <<>> THEN 0 ELSE SeqMin(Wealths(turtles))
GetTotalWealth(turtles) == SeqSum(Wealths(turtles))

\* the numerator of the Gini formula over the sorted wealths, rank by rank
RECURSIVE GiniNumerator(_, _, _)
GiniNumerator(wealths, i, n) ==
    IF i > n THEN 0
    ELSE (2 * i - n - 1) * wealths[i] + GiniNumerator(wealths, i + 1, n)

\* calculate_gini_index with the wealths left in list order
CalculateGiniIndexUnsorted(turtles) ==
    IF Len(turtles) < 2 THEN Rat(0, 1)
    ELSE LET wealths == Strict([i \in 1 .. Len(turtles) |-> Max(0, turtles[i].wealth)],
                               Len(turtles))
             n == Len(wealths)
             total_wealth == SeqSum(wealths)
         IN  IF total_wealth = 0 THEN Rat(0, 1)
             ELSE Rat(GiniNumerator(wealths, 1, n), n * total_wealth)

\* World.calculate_gini_index
CalculateGiniIndex(turtles) ==
    IF Len(turtles) < 2 THEN Rat(0, 1)
    ELSE LET wealths == SortAsc(Strict([i \in 1 .. Len(turtles) |-> Max(0, turtles[i].wealth)],
                                       Len(turtles)))
             n == Len(wealths)
             total_wealth == SeqSum(wealths)
         IN  IF total_wealth = 0 THEN Rat(0, 1)
             ELSE Rat(GiniNumerator(wealths, 1, n), n * total_wealth)

\* turtle.wealth as the float the code holds
WealthFloat(wealth) == FloatOfRatio(wealth, WealthUnit)

\* sorted(...) of floats
RECURSIVE InsertFloat(_, _)
InsertFloat(x, s) ==
    IF s = <<>> THEN <<x>>
    ELSE IF FloatLess(Head(s), x) THEN <<Head(s)>> \o InsertFloat(x, Tail(s))
    ELSE <<x>> \o s

RECURSIVE SortFloats(_)
SortFloats(s) == IF s = <<>> THEN <<>> ELSE InsertFloat(Head(s), SortFloats(Tail(s)))

\* sum(...) of floats, added from left to right
RECURSIVE FloatSumFrom(_, _)
FloatSumFrom(s, acc) ==
    IF s = <<>> THEN acc ELSE FloatSumFrom(Tail(s), FloatAdd(acc, Head(s)))

\* World.get_total_wealth as the code evaluates it: sum(...) of the float
\* wealths in list order
GetTotalWealthFloat(turtles) ==
    FloatSumFrom(Strict([i \in 1 .. Len(turtles) |-> WealthFloat(turtles[i].wealth)],
                        Len(turtles)),
                 FloatZero)

\* the loop numerator += (2 * (i + 1) - n - 1) * wealth_val, in floats
RECURSIVE GiniNumeratorFloat(_, _, _, _)
GiniNumeratorFloat(wealths, i, n, numerator) ==
    IF i > n THEN numerator
    ELSE GiniNumeratorFloat(wealths, i + 1, n,
            FloatAdd(numerator, FloatMulInt(2 * i - n - 1, wealths[i])))

\* the float 0.0 as a quotient
FloatQuotientZero == [numerator |-> FloatZero, denominator |-> FloatOfRatio(1, 1)]

\* World.calculate_gini_index as the code evaluates it in floats: the
\* operands of the final division numerator / denominator, whose correctly
\* rounded quotient is returned
CalculateGiniIndexFloat(turtles) ==
    IF Len(turtles) < 2 THEN FloatQuotientZero
    ELSE LET clamped == Strict([i \in 1 .. Len(turtles) |->
                                  WealthFloat(Max(0, turtles[i].wealth))], Len(turtles))
             wealths == SortFloats(clamped)
             n == Len(wealths)
             total_wealth == FloatSumFrom(wealths, FloatZero)
         IN  IF total_wealth.sign = 0 THEN FloatQuotientZero
             ELSE [numerator |-> GiniNumeratorFloat(wealths, 1, n, FloatZero),
                   denominator |-> FloatMulInt(n, total_wealth)]

\* one point of the Lorenz list: the i-th of max_x population buckets
LorenzPoint(sorted, total_wealth, max_x, i) ==
    LET n_turtles == Len(sorted)
        turtle_index == Min(TruncDiv(i * n_turtles, max_x) - 1, n_turtles - 1)
        cumulative_wealth == SeqSum(Prefix(sorted, turtle_index + 1))
    IN  [pop |-> Rat(i * 100, max_x),
         wealth |-> Rat(cumulative_wealth * 100, total_wealth)]

\* the curve returned when there are no turtles or no wealth
DegenerateLorenz ==
    <<[pop |-> Rat(0, 1), wealth |-> Rat(0, 1)],
      [pop |-> Rat(100, 1), wealth |-> Rat(100, 1)]>>

\* calculate_lorenz_list with the guard testing the turtles only
CalculateLorenzListUnguarded(turtles, total_wealth, max_x) ==
    IF turtles = <<>>
    THEN DegenerateLorenz
    ELSE LET sorted == SortAsc(Wealths(turtles))
         IN  <<[pop |-> Rat(0, 1), wealth |-> Rat(0, 1)]>>
             \o [i \in 1 .. max_x |->
                    LorenzPoint(sorted, Max(1, total_wealth), max_x, i)]

\* World.calculate_lorenz_list(total_wealth, max_x): points (pop %, wealth %)
CalculateLorenzList(turtles, total_wealth, max_x) ==
    IF turtles = <<>> \/ total_wealth <= 0
    THEN DegenerateLorenz
    ELSE LET sorted == SortAsc(Wealths(turtles))
         IN  <<[pop |-> Rat(0, 1), wealth |-> Rat(0, 1)]>>
             \o [i \in 1 .. max_x |-> LorenzPoint(sorted, total_wealth, max_x, i)]

\* the floats divided for the last point of the Lorenz list: the sum of the
\* wealths in sorted order over get_total_wealth(), the sum in list order
LorenzEndFloat(turtles) ==
    LET wealths == Strict([i \in 1 .. Len(turtles) |-> WealthFloat(turtles[i].wealth)],
                          Len(turtles))
    IN  [cumulative_wealth |-> FloatSumFrom(SortFloats(wealths), FloatZero),
         total_wealth |-> FloatSumFrom(wealths, FloatZero)]

\* World.update_all_wealth_classes
UpdateAllWealthClasses(turtles) ==
    IF turtles = <<>> THEN turtles
    ELSE LET max_wealth == SeqMax(Wealths(turtles))
         IN  Strict([i \in 1 .. Len(turtles) |->
                        [turtles[i] EXCEPT
                            !.wealth_class = ClassifyAgent(turtles[i].wealth, max_wealth)]],
                    Len(turtles))

\* World.get_wealth_class_distribution
GetWealthClassDistribution(turtles) ==
    GetClassDistribution(Strict([i \in 1 .. Len(turtles) |-> turtles[i].wealth_class],
                                Len(turtles)))

----------------------------------------------------------------------------
(* World: construction *)

\* the fields __init__ copies from its arguments, with an empty grid and no
\* turtles yet
NewWorldFields(c) ==
    [width |-> c.width, height |-> c.height, num_turtles |-> c.num_turtles,
     percent_best_land |-> c.percent_best_land, max_vision |-> c.max_vision,
     max_metabolism |-> c.max_metabolism,
     min_life_expectancy |-> c.min_life_expectancy,
     max_life_expectancy |-> c.max_life_expectancy,
     grain_growth_interval |-> c.grain_growth_interval,
     max_grain |-> c.max_grain, num_grain_grown |-> c.num_grain_grown,
     uniform_wealth |-> c.uniform_wealth,
     grid |-> <<>>, turtles |-> <<>>, current_tick |-> 0, lorenz_list |-> <<>>,
     inheritance_flag |-> c.inheritance_flag,
     uniform_wealth_flag |-> c.uniform_wealth_flag]

\* the sequences of n pairwise distinct elements of S
InjectiveSeqs(S, n) ==
    {s \in [1 .. n -> S] : \A i, j \in 1 .. n : i # j => s[i] # s[j]}

\* selected_positions = all_positions[:num_turtles] after the shuffle
SelectedPositions(c) ==
    InjectiveSeqs(Cells(c.width, c.height),
                  Min(c.num_turtles, Cardinality(Cells(c.width, c.height))))

\* World._init_turtles at the positions pos with the drawn values draws
InitTurtles(w, pos, draws) ==
    UpdateAllWealthClasses(
        Strict([i \in 1 .. Len(pos) |->
                    InitTurtle(w, i - 1, pos[i][1], pos[i][2], 0, draws[i])], Len(pos)))

\* World.__init__: every World the constructor can return for the arguments
\* c, or the exception it raises
ConstructOutcomes(c) ==
    IF ~SampleOk(c)
    THEN {[ok |-> FALSE, error |-> "ValueError", rng_calls |-> 0]}
    ELSE LET w0 == NewWorldFields(c)
             n == Min(c.num_turtles, Cardinality(Cells(c.width, c.height)))
         IN  IF n > 0 /\ RandintRaises(w0)
             THEN {[ok |-> FALSE, error |-> "ValueError", rng_calls |-> 2]}
             ELSE {[ok |-> TRUE,
                    world |-> [w0 EXCEPT !.grid = grid,
                                         !.turtles = InitTurtles(w0, pos, draws)],
                    rng_calls |-> 2 + n * (IF c.uniform_wealth_flag THEN 3 ELSE 4)] :
                        grid \in {InitGrid(c, best) : best \in BestLandChoices(c)},
                        pos \in SelectedPositions(c),
                        draws \in [1 .. n -> InitTurtleDraws(w0, 0)]}

----------------------------------------------------------------------------
(* World: one tick *)

\* phase 1: every turtle moves; the grid is only read
MoveTurtles(w) ==
    [w EXCEPT !.turtles = Strict([i \in 1 .. Len(w.turtles) |-> Move(w.turtles[i], w)],
                                 Len(w.turtles))]

\* the indices of the turtles standing on cell c
TurtlesOnPatch(turtles, c) ==
    {i \in 1 .. Len(turtles) : turtles[i].x = c[1] /\ turtles[i].y = c[2]}

\* harvest_grain giving every turtle on a patch all of its grain
HarvestGrainExclusive(w) ==
    [w EXCEPT
        !.turtles = Strict([i \in 1 .. Len(w.turtles) |->
                        [w.turtles[i] EXCEPT !.wealth =
                            @ + w.grid[<<w.turtles[i].x, w.turtles[i].y>>].current_grain
                                    * WealthUnit]],
                        Len(w.turtles)),
        !.grid = Tabulate(DOMAIN w.grid, [c \in DOMAIN w.grid |->
                    IF w.grid[c].current_grain > 0 /\ TurtlesOnPatch(w.turtles, c) # {}
                    THEN [w.grid[c] EXCEPT !.current_grain = 0]
                    ELSE w.grid[c]])]

\* harvest_grain giving all the grain of a patch to the first turtle of the
\* list that stands on it
HarvestGrainFirstComer(w) ==
    [w EXCEPT
        !.turtles = Strict([i \in 1 .. Len(w.turtles) |->
                        IF \A j \in 1 .. i - 1 :
                              <<w.turtles[j].x, w.turtles[j].y>>
                                  # <<w.turtles[i].x, w.turtles[i].y>>
                        THEN [w.turtles[i] EXCEPT !.wealth =
                                @ + w.grid[<<w.turtles[i].x, w.turtles[i].y>>].current_grain
                                        * WealthUnit]
                        ELSE w.turtles[i]],
                        Len(w.turtles)),
        !.grid = Tabulate(DOMAIN w.grid, [c \in DOMAIN w.grid |->
                    IF w.grid[c].current_grain > 0 /\ TurtlesOnPatch(w.turtles, c) # {}
                    THEN [w.grid[c] EXCEPT !.current_grain = 0]
                    ELSE w.grid[c]])]

\* World.harvest_grain: the grain of every occupied patch is split evenly
\* among the turtles on it and the patch is emptied
HarvestGrain(w) ==
    LET Here(t) == TurtlesOnPatch(w.turtles, <<t.x, t.y>>)
        Share(t) ==
            LET total_grain == w.grid[<<t.x, t.y>>].current_grain
            IN  IF total_grain > 0
                THEN (total_grain * WealthUnit) \div Cardinality(Here(t))
                ELSE 0
    IN  [w EXCEPT
            !.turtles = Strict([i \in 1 .. Len(w.turtles) |->
                            [w.turtles[i] EXCEPT !.wealth = @ + Share(w.turtles[i])]],
                            Len(w.turtles)),
            !.grid = Tabulate(DOMAIN w.grid, [c \in DOMAIN w.grid |->
                        IF w.grid[c].current_grain > 0 /\ TurtlesOnPatch(w.turtles, c) # {}
                        THEN [w.grid[c] EXCEPT !.current_grain = 0]
                        ELSE w.grid[c]])]

\* phase 3: every turtle eats and ages
EatAndAge(w) ==
    [w EXCEPT !.turtles = Strict([i \in 1 .. Len(w.turtles) |->
                                    IncrementAge(Eat(w.turtles[i]))], Len(w.turtles))]

\* dead_turtles, in list order
DeadTurtles(w) == SelectSeq(w.turtles, IsDead)

\* offspring_wealth of a dead turtle
OffspringWealth(w, t) == IF w.inheritance_flag /\ t.wealth > 0 THEN t.wealth ELSE 0

\* the possible sequences of new turtles replacing the dead ones
RECURSIVE Offspring(_, _)
Offspring(w, dead) ==
    IF dead = <<>> THEN {<<>>}
    ELSE LET t == Head(dead)
         IN  {<<InitTurtle(w, t.id, t.x, t.y, OffspringWealth(w, t), d)>> \o rest :
                d \in InitTurtleDraws(w, OffspringWealth(w, t)),
                rest \in Offspring(w, Tail(dead))}

\* phase 4: each dead turtle is removed from the list and its replacement
\* appended
DeathAndRebirth(w, new_turtles) ==
    [w EXCEPT !.turtles = SelectSeq(w.turtles, LAMBDA t : ~IsDead(t)) \o new_turtles]

\* phase 5 with the growth applied on every tick
GrowPatchesEveryTick(w, t) ==
    [w EXCEPT !.grid = Tabulate(DOMAIN w.grid,
                [c \in DOMAIN w.grid |-> GrowGrain(w.grid[c], w.num_grain_grown)])]

\* phase 5: patch grain growth on the ticks divisible by the interval
GrowPatches(w, t) ==
    IF t % w.grain_growth_interval = 0
    THEN [w EXCEPT !.grid = Tabulate(DOMAIN w.grid,
                [c \in DOMAIN w.grid |-> GrowGrain(w.grid[c], w.num_grain_grown)])]
    ELSE w

\* wealth classes are brought up to date before the metrics are taken
UpdateClasses(w) == [w EXCEPT !.turtles = UpdateAllWealthClasses(w.turtles)]

\* the dict tick returns
TickMetrics(w) ==
    LET total_wealth == GetTotalWealth(w.turtles)
        wealth_classes == GetWealthClassDistribution(w.turtles)
    IN  [min_wealth |-> GetMinWealth(w.turtles),
         total_wealth |-> total_wealth,
         max_wealth |-> GetMaxWealth(w.turtles),
         gini_index |-> CalculateGiniIndex(w.turtles),
         lorenz_list |-> CalculateLorenzList(w.turtles, total_wealth, LorenzMaxX),
         poor |-> wealth_classes.poor,
         middle_class |-> wealth_classes.middle_class,
         rich |-> wealth_classes.rich]

\* phases 1 to 3 with the harvest run before the movement
AfterEatingHarvestFirst(w) == EatAndAge(MoveTurtles(HarvestGrain(w)))

\* the state of the world after phase 3 of a tick
AfterEating(w) == EatAndAge(HarvestGrain(MoveTurtles(w)))

\* the end of a tick with the classes updated before the dead are replaced
FinishTickClassesFirst(w3, new_turtles, t) ==
    GrowPatches(DeathAndRebirth(UpdateClasses(w3), new_turtles), t)

\* phases 4 and 5 and the class update, given the replacements drawn
FinishTick(w3, new_turtles, t) ==
    UpdateClasses(GrowPatches(DeathAndRebirth(w3, new_turtles), t))

\* World.tick(t): every (world, returned dict) the call can produce
TickOutcomes(w, t) ==
    LET w3 == AfterEating(w)
        Outcome(new_turtles) ==
            LET w5 == FinishTick(w3, new_turtles, t)
            IN  [world |-> w5, result |-> TickMetrics(w5),
                 rng_calls |-> Len(new_turtles) * (IF w.uniform_wealth_flag THEN 3 ELSE 4)]
    IN  {Outcome(new_turtles) : new_turtles \in Offspring(w3, DeadTurtles(w3))}

----------------------------------------------------------------------------
(* The arguments World is constructed with *)

BaseCfg ==
    [width |-> MaxWidth, height |-> 1, num_turtles |-> MaxTurtles,
     percent_best_land |-> 50, max_vision |-> MaxVision, max_metabolism |-> 1,
     min_life_expectancy |-> 1, max_life_expectancy |-> MaxLife,
     uniform_wealth |-> MaxUniformWealth, max_grain |-> CfgMaxGrain,
     grain_growth_interval |-> 1, num_grain_grown |-> 1,
     inheritance_flag |-> FALSE, uniform_wealth_flag |-> FALSE]

\* percentages inside and outside [0, 100]
Percents == {0 - 50, 0, 40, 50, 100, 150}

\* BaseCfg with one group of arguments varied at a time; the sizes and
\* percentages include the values a validating constructor would refuse
Configs ==
    {[BaseCfg EXCEPT !.width = w, !.height = h] :
        w \in 0 .. MaxWidth, h \in 0 .. MaxHeight}
    \cup {[BaseCfg EXCEPT !.width = WideWidth, !.percent_best_land = 100]}
    \cup {[BaseCfg EXCEPT !.num_turtles = n] : n \in 0 .. MaxTurtles}
    \cup {[BaseCfg EXCEPT !.percent_best_land = p] : p \in Percents}
    \cup {[BaseCfg EXCEPT !.min_life_expectancy = lo, !.max_life_expectancy = hi] :
            lo \in 1 .. MaxLife, hi \in 1 .. MaxLife}
    \cup {[BaseCfg EXCEPT !.max_metabolism = m, !.max_vision = v] :
            m \in 1 .. MaxMetabolism, v \in 1 .. MaxVision}
    \cup {[BaseCfg EXCEPT !.grain_growth_interval = k, !.num_grain_grown = a] :
            k \in 1 .. MaxInterval, a \in {1, MaxGrainGrown}}
    \cup {[BaseCfg EXCEPT !.inheritance_flag = f] : f \in BOOLEAN}
    \cup {[BaseCfg EXCEPT !.inheritance_flag = f, !.uniform_wealth_flag = TRUE,
                          !.uniform_wealth = u] :
            f \in BOOLEAN, u \in 0 .. MaxUniformWealth}

NoWorld == NewWorldFields(BaseCfg)
NoResult == [run_id |-> 0]

\* no visualizer created yet
NoViz ==
    [is_running |-> FALSE, current_tick |-> 0, time_data |-> <<>>,
     poor_history |-> <<>>, middle_history |-> <<>>, rich_history |-> <<>>,
     gini_history |-> <<>>, current_lorenz_points |-> <<>>, tick_args |-> <<>>]

----------------------------------------------------------------------------
(* One World: construction, then ticks *)

\* world = World(cfg)
Construct ==
    /\ pc = "new"
    /\ \E o \in ConstructOutcomes(cfg) :
          IF o.ok
          THEN /\ pc' = "ready"
               /\ world' = o.world
               /\ error' = "none"
          ELSE /\ pc' = "failed"
               /\ world' = world
               /\ error' = o.error
    /\ UNCHANGED <<cfg, tick_count, result, ticks>>

\* result = world.tick(t)
Tick ==
    /\ pc = "ready"
    /\ ticks < MaxTicks
    /\ \E t \in 0 .. MaxTickIndex :
          \E o \in TickOutcomes(world, t) :
              /\ world' = o.world
              /\ result' = o.result
              /\ tick_count' = t
    /\ ticks' = ticks + 1
    /\ UNCHANGED <<pc, cfg, error>>

\* no World constructed yet, no batch started
Init ==
    /\ pc = "new"
    /\ cfg \in Configs
    /\ world = NoWorld
    /\ error = "none"
    /\ tick_count = -1
    /\ result = NoResult
    /\ ticks = 0
    /\ bpc = "init"
    /\ args = [num_runs |-> 0, num_ticks |-> 0, world_kwargs |-> BaseCfg, cpu_count |-> 1]
    /\ num_processes = 0
    /\ queue = <<>>
    /\ workers = <<>>
    /\ all_run_results = <<>>
    /\ runs = <<>>
    /\ completed = <<>>
    /\ csv_rows = <<>>
    /\ viz = NoViz

Next ==
    \/ Construct /\ UNCHANGED <<batchVars, vizVars>>
    \/ Tick /\ UNCHANGED <<batchVars, vizVars>>

Spec == Init /\ [][Next]_vars

----------------------------------------------------------------------------
(* The metrics accessors, read on a World in any state of its turtles *)

\* wealths a turtle may hold: negative, zero, 1/3, 2/3, 2.6, 1 and 100
WealthValues ==
    {0 - WealthUnit, 0, WealthUnit \div 3, (2 * WealthUnit) \div 3,
     (13 * WealthUnit) \div 5, WealthUnit, 100 * WealthUnit}

\* the wealths of the turtles, in list order: all equal, or any mixture of
\* up to MaxMixed
Populations ==
    {[i \in 1 .. n |-> w] : n \in 0 .. MaxPopulation, w \in WealthValues}
    \cup UNION {[1 .. n -> WealthValues] : n \in 2 .. MaxMixed}

\* a World of one patch row whose turtles, just created, hold the given
\* wealths
PopulationWorld(wealths) ==
    LET w == NewWorldFields([BaseCfg EXCEPT !.num_turtles = Len(wealths)])
        cells == Cells(w.width, w.height)
    IN  [w EXCEPT
            !.grid = Tabulate(cells, [c \in cells |-> Patch(c[1], c[2], 0)]),
            !.turtles = Strict([i \in 1 .. Len(wealths) |->
                            Turtle(i - 1, 0, 0, 1, 1, 1, wealths[i])], Len(wealths))]

\* what the accessors return on world w
AccessorValues(w) ==
    LET total_wealth == GetTotalWealth(w.turtles)
        wealth_classes == GetWealthClassDistribution(w.turtles)
    IN  [min_wealth |-> GetMinWealth(w.turtles),
         total_wealth |-> total_wealth,
         max_wealth |-> GetMaxWealth(w.turtles),
         gini_index |-> CalculateGiniIndexFloat(w.turtles),
         lorenz_list |-> CalculateLorenzList(w.turtles, total_wealth, LorenzMaxX),
         poor |-> wealth_classes.poor,
         middle_class |-> wealth_classes.middle_class,
         rich |-> wealth_classes.rich]

MetricsInit ==
    /\ pc = "population"
    /\ cfg = BaseCfg
    /\ \E wealths \in Populations : world = PopulationWorld(wealths)
    /\ error = "none"
    /\ tick_count = -1
    /\ result = NoResult
    /\ ticks = 0
    /\ bpc = "init"
    /\ args = [num_runs |-> 0, num_ticks |-> 0, world_kwargs |-> BaseCfg, cpu_count |-> 1]
    /\ num_processes = 0
    /\ queue = <<>>
    /\ workers = <<>>
    /\ all_run_results = <<>>
    /\ runs = <<>>
    /\ completed = <<>>
    /\ csv_rows = <<>>
    /\ viz = NoViz

\* self.update_all_wealth_classes()
Reclassify ==
    /\ pc = "population"
    /\ pc' = "classified"
    /\ world' = UpdateClasses(world)
    /\ UNCHANGED <<cfg, error, tick_count, result, ticks>>

\* the accessors are called; they change nothing
ReadMetrics ==
    /\ pc = "classified"
    /\ pc' = "measured"
    /\ result' = AccessorValues(world)
    /\ UNCHANGED <<cfg, world, error, tick_count, ticks>>

MetricsNext ==
    \/ Reclassify /\ UNCHANGED <<batchVars, vizVars>>
    \/ ReadMetrics /\ UNCHANGED <<batchVars, vizVars>>

MetricsSpec == MetricsInit /\ [][MetricsNext]_vars

----------------------------------------------------------------------------
(* The phases of a tick, one call at a time, on a World in mid-simulation *)

\* a patch holding 8 of 10 grains, and an empty one of capacity 2
PatchKinds == {[max_grain |-> 10, current_grain |-> 8],
               [max_grain |-> 2, current_grain |-> 0]}

\* growth amount and interval
GrowthSettings == {[num_grain_grown |-> 4, grain_growth_interval |-> 1],
                   [num_grain_grown |-> 1, grain_growth_interval |-> 2]}

\* one turtle anywhere, or a second one beside it or in the first cell
TurtlePlacements(cells) ==
    {<<c>> : c \in cells}
    \cup {<<c, c>> : c \in cells} \cup {<<c, <<0, 0>>>> : c \in cells}

\* a World of the given shape, patches, turtle positions, vision and growth
PhaseWorld(width, height, kinds, places, vision, growth) ==
    LET w == NewWorldFields([BaseCfg EXCEPT
                !.width = width, !.height = height, !.num_turtles = Len(places),
                !.max_vision = PhaseVision, !.max_grain = 10,
                !.num_grain_grown = growth.num_grain_grown,
                !.grain_growth_interval = growth.grain_growth_interval])
        cells == Cells(width, height)
    IN  [w EXCEPT
            !.grid = Tabulate(cells, [c \in cells |->
                        [Patch(c[1], c[2], kinds[c].max_grain)
                            EXCEPT !.current_grain = kinds[c].current_grain]]),
            !.turtles = UpdateAllWealthClasses(
                Strict([i \in 1 .. Len(places) |->
                            Turtle(i - 1, places[i][1], places[i][2], 1, vision, 2,
                                   WealthUnit)], Len(places)))]

PhaseShapes == {1, PhaseSize} \X {1, PhaseSize}

PhaseInit ==
    /\ pc = "placed"
    /\ cfg = BaseCfg
    /\ \E shape \in PhaseShapes :
          \E kinds \in [Cells(shape[1], shape[2]) -> PatchKinds],
             places \in TurtlePlacements(Cells(shape[1], shape[2])),
             vision \in 1 .. PhaseVision, growth \in GrowthSettings :
                world = PhaseWorld(shape[1], shape[2], kinds, places, vision, growth)
    /\ error = "none"
    /\ tick_count = -1
    /\ result = NoResult
    /\ ticks = 0
    /\ bpc = "init"
    /\ args = [num_runs |-> 0, num_ticks |-> 0, world_kwargs |-> BaseCfg, cpu_count |-> 1]
    /\ num_processes = 0
    /\ queue = <<>>
    /\ workers = <<>>
    /\ all_run_results = <<>>
    /\ runs = <<>>
    /\ completed = <<>>
    /\ csv_rows = <<>>
    /\ viz = NoViz

\* for turtle in self.turtles: turtle.move(self)
DoMove ==
    /\ pc = "placed"
    /\ pc' = "moved"
    /\ world' = MoveTurtles(world)
    /\ UNCHANGED <<cfg, error, tick_count, result, ticks>>

\* self.harvest_grain()
DoHarvest ==
    /\ pc = "moved"
    /\ pc' = "harvested"
    /\ world' = HarvestGrain(world)
    /\ UNCHANGED <<cfg, error, tick_count, result, ticks>>

\* the regrowth phase of tick(t)
DoGrow ==
    /\ pc = "harvested"
    /\ pc' = "grown"
    /\ \E t \in 0 .. MaxTickIndex :
          /\ tick_count' = t
          /\ world' = GrowPatches(world, t)
    /\ UNCHANGED <<cfg, error, result, ticks>>

PhaseNext ==
    \/ DoMove /\ UNCHANGED <<batchVars, vizVars>>
    \/ DoHarvest /\ UNCHANGED <<batchVars, vizVars>>
    \/ DoGrow /\ UNCHANGED <<batchVars, vizVars>>

PhaseSpec == PhaseInit /\ [][PhaseNext]_vars

----------------------------------------------------------------------------
(* One diffusion pass on a grid in the making *)

\* grain is counted in units of 1 / DiffuseUnit, so that the part kept and
\* the share of each of 1 to 4 neighbours are whole numbers of units
DiffuseUnit == DiffusionRateDen * LCMUpTo(4)

ColumnMajor(width, height) ==
    [k \in 1 .. width * height |-> <<(k - 1) \div height, (k - 1) % height>>]

\* the order of the code, another one, and both backwards
VisitOrders(width, height) ==
    {RowMajor(width, height), Reverse(RowMajor(width, height)),
     ColumnMajor(width, height), Reverse(ColumnMajor(width, height))}

\* a World during _init_grid: the cells of best hold max_grain, the others 0
GridInTheMaking(width, height, best) ==
    LET w == NewWorldFields([BaseCfg EXCEPT !.width = width, !.height = height])
        cells == Cells(width, height)
    IN  [w EXCEPT !.grid = Tabulate(cells, [c \in cells |->
                    IF c \in best
                    THEN [Patch(c[1], c[2], w.max_grain)
                            EXCEPT !.current_grain = w.max_grain * DiffuseUnit]
                    ELSE Patch(c[1], c[2], 0)])]

CurrentGrain(grid) == Tabulate(DOMAIN grid, [c \in DOMAIN grid |-> grid[c].current_grain])

DiffuseInit ==
    /\ pc = "diffusing"
    /\ cfg = BaseCfg
    /\ \E width \in {1, 2, DiffuseSize}, height \in {1, 2, DiffuseSize} :
          \E best \in {b \in SUBSET Cells(width, height) : Cardinality(b) <= MaxGrainCells} :
              world = GridInTheMaking(width, height, best)
    /\ error = "none"
    /\ tick_count = -1
    /\ result = NoResult
    /\ ticks = 0
    /\ bpc = "init"
    /\ args = [num_runs |-> 0, num_ticks |-> 0, world_kwargs |-> BaseCfg, cpu_count |-> 1]
    /\ num_processes = 0
    /\ queue = <<>>
    /\ workers = <<>>
    /\ all_run_results = <<>>
    /\ runs = <<>>
    /\ completed = <<>>
    /\ csv_rows = <<>>
    /\ viz = NoViz

\* self._diffuse_grain(0.25), the cells visited in some order
DoDiffuse ==
    /\ pc = "diffusing"
    /\ pc' = "diffused"
    /\ \E order \in VisitOrders(world.width, world.height) :
          LET g == CurrentGrain(world.grid)
              zero == Tabulate(DOMAIN g, [c \in DOMAIN g |-> 0])
              new_grain == DiffuseLoop(g, zero, order, world.width, world.height,
                                       DiffusionRateNum, DiffusionRateDen)
          IN  world' = [world EXCEPT !.grid = Tabulate(DOMAIN g, [c \in DOMAIN g |->
                            [world.grid[c] EXCEPT !.current_grain = new_grain[c]]])]
    /\ UNCHANGED <<cfg, error, tick_count, result, ticks>>

DiffuseNext == DoDiffuse /\ UNCHANGED <<batchVars, vizVars>>

DiffuseSpec == DiffuseInit /\ [][DiffuseNext]_vars

----------------------------------------------------------------------------
(* The interactive visualizer (simulation_gui_runner.main and             *)
(* InteractiveWealthVisualizer).  The plots are not modelled; tick_args   *)
(* records the arguments of the World.tick calls made since the           *)
(* visualizer was created or SETUP was pressed.                           *)

\* the default arguments of World(), on the scale of the model; both flags
\* default to False
DefaultKwargs == BaseCfg

Scenarios == {"default", "inheritance", "uniform"}

\* get_scenario_params(scenario): the defaults with the scenario's flags
ScenarioParams(scenario) ==
    [DefaultKwargs EXCEPT !.inheritance_flag = (scenario = "inheritance"),
                          !.uniform_wealth_flag = (scenario = "uniform")]

\* the worlds a visualizer is created with: main's scenarios, and a World
\* built with grain_growth_interval = 0, whose tick raises
VizKwargs ==
    {ScenarioParams(scenario) : scenario \in Scenarios}
    \cup {[DefaultKwargs EXCEPT !.grain_growth_interval = 0]}

\* world.tick(t) as the visualizer calls it: the call returns, or
\* tick_count % self.grain_growth_interval raises ZeroDivisionError after
\* the first four phases have changed the world
TickCall(w, t) ==
    IF w.grain_growth_interval = 0
    THEN LET w3 == AfterEating(w)
         IN  {[ok |-> FALSE, world |-> DeathAndRebirth(w3, new_turtles)] :
                 new_turtles \in Offspring(w3, DeadTurtles(w3))}
    ELSE {[ok |-> TRUE, world |-> o.world] : o \in TickOutcomes(w, t)}

\* the loop with the counter incremented after the tick call
RECURSIVE StepsOutcomesLateCount(_, _, _, _)
StepsOutcomesLateCount(w, current_tick, tick_args, steps) ==
    IF steps = 0
    THEN {[world |-> w, current_tick |-> current_tick, tick_args |-> tick_args,
           raised |-> FALSE]}
    ELSE UNION {IF o.ok
                THEN StepsOutcomesLateCount(o.world, current_tick + 1,
                                            Append(tick_args, current_tick), steps - 1)
                ELSE {[world |-> o.world, current_tick |-> current_tick,
                       tick_args |-> Append(tick_args, current_tick),
                       raised |-> TRUE]} :
                    o \in TickCall(w, current_tick)}

\* for _ in range(steps): self.current_tick += 1; self.world.tick(...)
\* every way the loop can end: exhausted, or left by an exception
RECURSIVE StepsOutcomes(_, _, _, _)
StepsOutcomes(w, current_tick, tick_args, steps) ==
    IF steps = 0
    THEN {[world |-> w, current_tick |-> current_tick, tick_args |-> tick_args,
           raised |-> FALSE]}
    ELSE UNION {IF o.ok
                THEN StepsOutcomes(o.world, current_tick + 1,
                                   Append(tick_args, current_tick + 1), steps - 1)
                ELSE {[world |-> o.world, current_tick |-> current_tick + 1,
                       tick_args |-> Append(tick_args, current_tick + 1),
                       raised |-> TRUE]} :
                    o \in TickCall(w, current_tick + 1)}

\* _update_plots: the histories get the current figures of the world
UpdatePlots(v, w) ==
    LET class_distribution == GetWealthClassDistribution(w.turtles)
        total_wealth == GetTotalWealth(w.turtles)
    IN  [v EXCEPT
            !.time_data = Append(@, v.current_tick),
            !.poor_history = Append(@, class_distribution.poor),
            !.middle_history = Append(@, class_distribution.middle_class),
            !.rich_history = Append(@, class_distribution.rich),
            !.gini_history = Append(@, CalculateGiniIndex(w.turtles)),
            !.current_lorenz_points =
                IF total_wealth > 0
                THEN CalculateLorenzList(w.turtles, total_wealth, LorenzMaxX)
                ELSE @]

VizInit ==
    /\ pc = "new"
    /\ cfg \in VizKwargs
    /\ world = NoWorld
    /\ error = "none"
    /\ tick_count = -1
    /\ result = NoResult
    /\ ticks = 0
    /\ bpc = "init"
    /\ args = [num_runs |-> 0, num_ticks |-> 0, world_kwargs |-> BaseCfg, cpu_count |-> 1]
    /\ num_processes = 0
    /\ queue = <<>>
    /\ workers = <<>>
    /\ all_run_results = <<>>
    /\ runs = <<>>
    /\ completed = <<>>
    /\ csv_rows = <<>>
    /\ viz = NoViz

\* world = World(**params); InteractiveWealthVisualizer(world)
CreateVisualizer ==
    /\ pc = "new"
    /\ \E o \in ConstructOutcomes(cfg) :
          /\ o.ok
          /\ world' = o.world
    /\ pc' = "ready"
    /\ viz' = NoViz
    /\ UNCHANGED <<cfg, error, tick_count, result, ticks>>

\* the START/STOP button: _toggle_simulation
ToggleSimulation ==
    /\ pc = "ready"
    /\ viz' = [viz EXCEPT !.is_running = ~@]
    /\ UNCHANGED <<pc, cfg, world, error, tick_count, result, ticks>>

\* the SETUP button: _setup_simulation
SetupSimulation ==
    /\ pc = "ready"
    /\ \E o \in ConstructOutcomes(DefaultKwargs) :
          /\ o.ok
          /\ world' = o.world
    /\ viz' = [is_running |-> FALSE, current_tick |-> 0, time_data |-> <<>>,
               poor_history |-> <<>>, middle_history |-> <<>>, rich_history |-> <<>>,
               gini_history |-> <<>>, current_lorenz_points |-> <<>>,
               tick_args |-> <<>>]
    /\ UNCHANGED <<pc, cfg, error, tick_count, result, ticks>>

\* the animation timer: _animation_update(frame), the slider giving
\* steps = max(1, int(speed))
AnimationUpdate ==
    /\ pc = "ready"
    /\ viz.current_tick < MaxVizTicks
    /\ IF viz.is_running
       THEN \E steps \in 1 .. MaxSteps :
              \E o \in StepsOutcomes(world, viz.current_tick, viz.tick_args, steps) :
                  LET counted == [viz EXCEPT !.current_tick = o.current_tick,
                                             !.tick_args = o.tick_args]
                  IN  /\ world' = o.world
                      /\ viz' = IF o.raised
                                THEN [counted EXCEPT !.is_running = FALSE]
                                ELSE UpdatePlots(counted, o.world)
       ELSE UNCHANGED <<world, viz>>
    /\ UNCHANGED <<pc, cfg, error, tick_count, result, ticks>>

VizNext ==
    \/ CreateVisualizer /\ UNCHANGED batchVars
    \/ ToggleSimulation /\ UNCHANGED batchVars
    \/ SetupSimulation /\ UNCHANGED batchVars
    \/ AnimationUpdate /\ UNCHANGED batchVars

VizSpec == VizInit /\ [][VizNext]_vars

----------------------------------------------------------------------------
(* run_batch_simulations *)

\* d[k] = v on a dict
SetItem(d, k, v) == [x \in DOMAIN d \cup {k} |-> IF x = k THEN v ELSE d[x]]

\* the empty dict {}
EmptyDict == <<>>

RECURSIVE InsertByRunId(_, _)
InsertByRunId(r, s) ==
    IF s = <<>> THEN <<r>>
    ELSE IF r.run_id < Head(s).run_id THEN <<r>> \o s
    ELSE <<Head(s)>> \o InsertByRunId(r, Tail(s))

\* sorted(all_run_results, key=lambda x: x['run_id'])
RECURSIVE SortedByRunId(_)
SortedByRunId(results) ==
    IF results = <<>> THEN <<>>
    ELSE InsertByRunId(results[Len(results)],
                       SortedByRunId(SubSeq(results, 1, Len(results) - 1)))

\* the pool size without the cap at num_runs
NumProcessesUncapped(num_runs, cpu_count) == Max(1, cpu_count - 1)

\* num_processes = max(1, cpu_count() - 1), capped at num_runs
NumProcesses(num_runs, cpu_count) ==
    IF num_runs < Max(1, cpu_count - 1) THEN num_runs ELSE Max(1, cpu_count - 1)

\* the keyword arguments the batches are run with: a small valid world, and
\* arguments for which World(...) raises
BatchKwargs ==
    {[BaseCfg EXCEPT !.width = 1, !.num_turtles = 1, !.max_life_expectancy = 1],
     [BaseCfg EXCEPT !.width = 1, !.num_turtles = 1, !.min_life_expectancy = MaxLife,
                     !.max_life_expectancy = 1]}

IdleWorker(rng) ==
    [state |-> "idle", run_id |-> 0, world |-> NoWorld, tick_num |-> 0,
     final_result_from_tick |-> EmptyDict, rng |-> rng]

NotRun == [starts |-> 0, worker |-> 0, rng_at_start |-> 0, tick_calls |-> 0,
           world |-> NoWorld]

BatchInit ==
    /\ pc = "new"
    /\ cfg = BaseCfg
    /\ world = NoWorld
    /\ error = "none"
    /\ tick_count = -1
    /\ result = NoResult
    /\ ticks = 0
    /\ bpc = "init"
    /\ args \in [num_runs : 0 .. MaxRuns, num_ticks : 0 .. MaxBatchTicks,
                  world_kwargs : BatchKwargs, cpu_count : 1 .. MaxCpu]
    /\ num_processes = 0
    /\ queue = <<>>
    /\ workers = <<>>
    /\ all_run_results = <<>>
    /\ runs = <<>>
    /\ completed = <<>>
    /\ csv_rows = <<>>
    /\ viz = NoViz

\* run_batch_simulations up to the pool.map call: the task list is built and
\* the pool created; Pool(processes=n) raises ValueError for n < 1.  Every
\* worker process starts with a freshly seeded generator of its own.
StartBatch ==
    /\ bpc = "init"
    /\ num_processes' = NumProcesses(args.num_runs, args.cpu_count)
    /\ IF num_processes' < 1
       THEN /\ bpc' = "aborted"
            /\ UNCHANGED <<queue, workers, all_run_results, runs>>
       ELSE /\ bpc' = "pool"
            /\ queue' = [i \in 1 .. args.num_runs |-> i]
            /\ workers' = [w \in 1 .. num_processes' |-> IdleWorker(0)]
            /\ all_run_results' = [i \in 1 .. args.num_runs |-> NoResult]
            /\ runs' = [i \in 1 .. args.num_runs |-> NotRun]
    /\ UNCHANGED <<args, completed, csv_rows>>

\* an idle worker takes the next task and enters
\* _run_single_simulation_for_batch: the World is constructed from the
\* worker process's generator, or the constructor raises
TakeTask(w) ==
    /\ bpc = "pool"
    /\ workers[w].state = "idle"
    /\ queue # <<>>
    /\ LET run_id == Head(queue)
       IN  /\ queue' = Tail(queue)
           /\ runs' = [runs EXCEPT ![run_id] =
                          [@ EXCEPT !.starts = @ + 1, !.worker = w,
                                    !.rng_at_start = workers[w].rng]]
           /\ \E o \in ConstructOutcomes(args.world_kwargs) :
                 workers' = [workers EXCEPT ![w] =
                     IF o.ok
                     THEN [state |-> "running", run_id |-> run_id, world |-> o.world,
                           tick_num |-> 0, final_result_from_tick |-> EmptyDict,
                           rng |-> @.rng + o.rng_calls]
                     ELSE [@ EXCEPT !.state = "raised", !.run_id = run_id,
                                    !.rng = @ + o.rng_calls]]
    /\ UNCHANGED <<bpc, args, num_processes, all_run_results, completed, csv_rows>>

\* a loop that stops one iteration short: range(num_ticks - 1)
LoopDoneEarly(tick_num, num_ticks) == tick_num >= num_ticks - 1

\* for tick_num in range(num_ticks): the loop is exhausted
LoopDone(tick_num, num_ticks) == tick_num >= num_ticks

\* one iteration of the loop: final_result_from_tick = world.tick(tick_num)
RunTick(w) ==
    /\ bpc = "pool"
    /\ workers[w].state = "running"
    /\ ~LoopDone(workers[w].tick_num, args.num_ticks)
    /\ \E o \in TickOutcomes(workers[w].world, workers[w].tick_num) :
          /\ workers' = [workers EXCEPT ![w] =
                  [@ EXCEPT !.world = o.world, !.final_result_from_tick = o.result,
                            !.tick_num = @ + 1, !.rng = @ + o.rng_calls]]
          /\ runs' = [runs EXCEPT ![workers[w].run_id] =
                  [@ EXCEPT !.tick_calls = @ + 1, !.world = o.world]]
    /\ UNCHANGED <<bpc, args, num_processes, queue, all_run_results, completed, csv_rows>>

\* the record the worker function returns
RunRecord(final_result_from_tick, run_id) ==
    SetItem(final_result_from_tick, "run_id", run_id)

\* the loop is over: the run id is stored in the dict, which is returned and
\* lands in the task's slot of pool.map's list
FinishRun(w) ==
    /\ bpc = "pool"
    /\ workers[w].state = "running"
    /\ LoopDone(workers[w].tick_num, args.num_ticks)
    /\ all_run_results' = [all_run_results EXCEPT ![workers[w].run_id] =
            RunRecord(workers[w].final_result_from_tick, workers[w].run_id)]
    /\ completed' = Append(completed, workers[w].run_id)
    /\ workers' = [workers EXCEPT ![w] = IdleWorker(@.rng)]
    /\ UNCHANGED <<bpc, args, num_processes, queue, runs, csv_rows>>

\* the columns of the csv file
fieldnames ==
    {"run_id", "min_wealth", "max_wealth", "total_wealth", "gini_index",
     "lorenz_list", "poor", "middle_class", "rich"}

\* the rows sorted with reverse=True
CsvRowsReversed(results) ==
    LET sorted == SortedByRunId(results)
    IN  [i \in 1 .. Len(sorted) |-> sorted[Len(sorted) + 1 - i]]

\* the rows written to the csv file, in order
CsvRows(results) == SortedByRunId(results)

\* pool.map has returned the list of all results: the rows are written
WriteCsv ==
    /\ bpc = "pool"
    /\ queue = <<>>
    /\ \A w \in DOMAIN workers : workers[w].state = "idle"
    /\ csv_rows' = CsvRows(all_run_results)
    /\ bpc' = "written"
    /\ UNCHANGED <<args, num_processes, queue, workers, all_run_results, runs, completed>>

\* a worker function raised: pool.map re-raises in the parent, the pool is
\* terminated on leaving the with block and run_batch_simulations ends with
\* the exception, before the csv file is opened
AbortBatch ==
    /\ bpc = "pool"
    /\ \E w \in DOMAIN workers : workers[w].state = "raised"
    /\ bpc' = "aborted"
    /\ UNCHANGED <<args, num_processes, queue, workers, all_run_results, runs,
                   completed, csv_rows>>

BatchNext ==
    \/ StartBatch /\ UNCHANGED <<worldVars, vizVars>>
    \/ (\E w \in DOMAIN workers : TakeTask(w)) /\ UNCHANGED <<worldVars, vizVars>>
    \/ (\E w \in DOMAIN workers : RunTick(w)) /\ UNCHANGED <<worldVars, vizVars>>
    \/ (\E w \in DOMAIN workers : FinishRun(w)) /\ UNCHANGED <<worldVars, vizVars>>
    \/ WriteCsv /\ UNCHANGED <<worldVars, vizVars>>
    \/ AbortBatch /\ UNCHANGED <<worldVars, vizVars>>

BatchSpec == BatchInit /\ [][BatchNext]_vars

----------------------------------------------------------------------------
(* Properties of one World (checked under Spec) *)

Ready == pc = "ready"
Ticked == pc = "ready" /\ ticks >= 1
Patches == {world.grid[c] : c \in DOMAIN world.grid}
TurtleSet == {world.turtles[i] : i \in 1 .. Len(world.turtles)}

\* C1: once the World is constructed, and after any ticks, every patch has
\* 0 <= current_grain <= max_grain.
C1_GrainWithinCapacity ==
    Ready => \A p \in Patches : 0 <= p.current_grain /\ p.current_grain <= p.max_grain

\* a patch a turtle stands on after a tick, regrown in that tick by more
\* than its capacity and capped at it
C1_Witness ==
    /\ Ticked
    /\ \E p \in Patches :
          /\ \E t \in TurtleSet : t.x = p.x /\ t.y = p.y
          /\ 0 < p.max_grain /\ p.max_grain < world.num_grain_grown
          /\ p.current_grain = p.max_grain
          /\ tick_count % world.grain_growth_interval = 0

\* the arguments the specification's constructor refuses
InvalidConfiguration(c) ==
    \/ c.width <= 0
    \/ c.height <= 0
    \/ c.num_turtles <= 0
    \/ c.percent_best_land < 0
    \/ c.percent_best_land > 100
    \/ c.min_life_expectancy > c.max_life_expectancy

\* C6: constructing a World with width <= 0, height <= 0, num_turtles <= 0,
\* percent_best_land outside [0, 100] or min_life_expectancy >
\* max_life_expectancy fails with InvalidConfiguration and yields no World.
C6_InvalidConfigurationRejected ==
    (pc # "new" /\ InvalidConfiguration(cfg)) =>
        (pc = "failed" /\ error = "InvalidConfiguration")

\* C7: with no turtles the metrics are Gini 0, the degenerate Lorenz curve
\* and zero class counts, and with turtles whose total wealth is not
\* positive the Gini index is 0 and the Lorenz curve degenerate; this holds
\* of the accessors in every state and of the dict every tick returns, and
\* tick(t) returns from such a state for every t.
C7_DegenerateMetrics ==
    LET total == GetTotalWealth(world.turtles)
        zero == [poor |-> 0, middle_class |-> 0, rich |-> 0]
    IN  (Ready /\ (world.turtles = <<>> \/ total <= 0)) =>
            /\ CalculateGiniIndex(world.turtles) = Rat(0, 1)
            /\ CalculateLorenzList(world.turtles, total, LorenzMaxX) = DegenerateLorenz
            /\ world.turtles = <<>> => GetWealthClassDistribution(world.turtles) = zero
            /\ ticks >= 1 =>
                  /\ result.gini_index = Rat(0, 1)
                  /\ result.lorenz_list = DegenerateLorenz
                  /\ world.turtles = <<>> =>
                        result.poor = 0 /\ result.middle_class = 0 /\ result.rich = 0
            /\ \A t \in 0 .. MaxTickIndex : TickOutcomes(world, t) # {}

\* a tick has returned for a population of two turtles without any wealth
C7_Witness ==
    /\ Ticked
    /\ Len(world.turtles) >= 2
    /\ GetTotalWealth(world.turtles) = 0
    /\ result.lorenz_list = DegenerateLorenz

\* a tick has returned for a World without turtles
C7_WitnessEmpty ==
    /\ Ticked
    /\ world.turtles = <<>>
    /\ DOMAIN world.grid # {}
    /\ result.lorenz_list = DegenerateLorenz

\* A step of the World that is one tick call, and what the call's phases
\* make of the turtle with a given id, computed from the state before it.
TickStep == pc = "ready" /\ ticks' = ticks + 1
IdsOf(turtles) == {turtles[i].id : i \in 1 .. Len(turtles)}
ById(turtles, id) == turtles[CHOOSE i \in 1 .. Len(turtles) : turtles[i].id = id]
MovedTo(id) == LET m == Move(ById(world.turtles, id), world) IN <<m.x, m.y>>
Together(c) == {id \in IdsOf(world.turtles) : MovedTo(id) = c}
Harvested(id) ==
    LET grain == world.grid[MovedTo(id)].current_grain
    IN  IF grain > 0
        THEN (grain * WealthUnit) \div Cardinality(Together(MovedTo(id)))
        ELSE 0
WealthAfterEating(id) ==
    LET t == ById(world.turtles, id)
    IN  t.wealth + Harvested(id) - t.metabolism * WealthUnit
DiesInTick(id) ==
    LET t == ById(world.turtles, id)
    IN  WealthAfterEating(id) <= 0 \/ t.age + 1 >= t.life_expectancy
GrainLeft(c) ==
    IF Together(c) # {} /\ world.grid[c].current_grain > 0
    THEN 0 ELSE world.grid[c].current_grain

\* C8: the phases of one tick call run in the order move, harvest,
\* consume and age, rebirth, regrowth, classes and metrics: after the call
\* every turtle stands on the patch it moved to and a surviving turtle has
\* its old wealth plus its share of that patch minus its metabolism; a
\* turtle whose wealth is positive after harvest and consumption and whose
\* age is below its life expectancy survives; every patch holds what the
\* harvest left of it, regrown if the tick is a growth tick; and the
\* classes and the returned metrics are those of the population after
\* rebirth.
C8_TickPhaseOrder ==
    [][TickStep =>
        /\ \A id \in IdsOf(world.turtles) :
              LET old == ById(world.turtles, id)
                  new == ById(world'.turtles, id)
              IN  /\ <<new.x, new.y>> = MovedTo(id)
                  /\ new.age > 0 => new.wealth = WealthAfterEating(id)
                  /\ (WealthAfterEating(id) > 0 /\ old.age + 1 < old.life_expectancy)
                        => new.age = old.age + 1
        /\ \A c \in DOMAIN world.grid :
              LET p == world.grid[c]
                  left == GrainLeft(c)
              IN  world'.grid[c].current_grain =
                    IF tick_count' % world.grain_growth_interval = 0 /\ left < p.max_grain
                    THEN Min(p.max_grain, left + world.num_grain_grown)
                    ELSE left
        /\ \A i \in 1 .. Len(world'.turtles) :
              world'.turtles[i].wealth_class =
                ClassifyAgent(world'.turtles[i].wealth, GetMaxWealth(world'.turtles))
        /\ result'.total_wealth = GetTotalWealth(world'.turtles)
        /\ result'.max_wealth = GetMaxWealth(world'.turtles)
        /\ result'.min_wealth = GetMinWealth(world'.turtles)
        /\ \A k \in {"poor", "middle_class", "rich"} :
              result'[k] = Cardinality({i \in 1 .. Len(world'.turtles) :
                                          world'.turtles[i].wealth_class = k})
    ]_vars

\* after a tick: a survivor richer than any turtle starts, so it has
\* harvested; a turtle reborn in the tick; and an occupied patch that holds
\* exactly the growth of one tick, so it was emptied and then regrown
C8_Witness ==
    /\ Ticked
    /\ ~world.uniform_wealth_flag /\ ~world.inheritance_flag
    /\ \E t \in TurtleSet :
          t.age >= 1 /\ t.wealth > (world.max_metabolism + RandWealthMax) * WealthUnit
    /\ \E t \in TurtleSet : t.age = 0
    /\ \E p \in Patches :
          /\ \E t \in TurtleSet : t.x = p.x /\ t.y = p.y
          /\ p.current_grain = world.num_grain_grown
          /\ p.current_grain < p.max_grain

\* C9: in a tick a turtle is replaced exactly when, after that tick's
\* consumption and aging, its wealth is <= 0 or its age >= its life
\* expectancy; the replacement has the same id, the coordinate of the
\* turtle it replaces and age 0; every other turtle comes out of the tick
\* as the first three phases left it, and no id is lost or duplicated.
C9_DeathAndRebirth ==
    [][TickStep =>
        /\ Len(world'.turtles) = Len(world.turtles)
        /\ IdsOf(world'.turtles) = IdsOf(world.turtles)
        /\ Cardinality(IdsOf(world'.turtles)) = Len(world'.turtles)
        /\ \A id \in IdsOf(world.turtles) :
              LET old == ById(world.turtles, id)
                  new == ById(world'.turtles, id)
              IN  IF DiesInTick(id)
                  THEN /\ new.age = 0
                       /\ <<new.x, new.y>> = MovedTo(id)
                  ELSE new = [old EXCEPT !.x = MovedTo(id)[1],
                                         !.y = MovedTo(id)[2],
                                         !.wealth = WealthAfterEating(id),
                                         !.age = old.age + 1,
                                         !.wealth_class = new.wealth_class]
    ]_vars

\* after a second tick: a turtle reborn in it beside a turtle that has
\* survived it, both on one patch
C9_Witness ==
    /\ pc = "ready" /\ ticks >= 2
    /\ \E t \in TurtleSet, u \in TurtleSet :
          t.age = 0 /\ u.age >= 1 /\ t.x = u.x /\ t.y = u.y

Position(t) == <<t.x, t.y>>

\* the configuration of a World
Configuration(w) ==
    <<w.width, w.height, w.num_turtles, w.percent_best_land, w.max_vision,
      w.max_metabolism, w.min_life_expectancy, w.max_life_expectancy, w.max_grain,
      w.grain_growth_interval, w.num_grain_grown, w.inheritance_flag,
      w.uniform_wealth_flag, w.uniform_wealth>>

\* C15: a tick changes no patch's max_grain or coordinates and no
\* configuration field of the World (size, number of turtles, percentage of
\* best land, bounds of vision, metabolism and life expectancy, max_grain,
\* growth interval and amount, the two flags, uniform_wealth).
C15_TickKeepsConfiguration ==
    [][TickStep =>
        /\ Configuration(world') = Configuration(world)
        /\ DOMAIN world'.grid = DOMAIN world.grid
        /\ \A c \in DOMAIN world.grid :
              /\ world'.grid[c].max_grain = world.grid[c].max_grain
              /\ world'.grid[c].x = world.grid[c].x
              /\ world'.grid[c].y = world.grid[c].y
    ]_vars

\* after a tick that harvested and regrew: a patch below its capacity and
\* a turtle that is no longer at its initial wealth or age
C15_Witness ==
    /\ Ticked
    /\ \E p \in Patches : 0 < p.current_grain /\ p.current_grain < p.max_grain
    /\ \E t \in TurtleSet : t.age >= 1

RoundHalfEven(n, d) ==
    LET q == n \div d
        r == n % d
    IN  IF 2 * r < d THEN q
        ELSE IF 2 * r > d THEN q + 1
        ELSE IF q % 2 = 0 THEN q ELSE q + 1

ConstructStep == pc = "new" /\ pc' = "ready"

\* C28: construction selects exactly round(width * height *
\* percent_best_land / 100) distinct best-land cells, runs the 5 rounds of
\* restore-and-diffuse and the 10 diffusion passes from them, and leaves
\* every patch with current_grain = max_grain, a non-negative whole number.
C28_RoundedBestLand ==
    [][ConstructStep =>
        /\ \E best \in SUBSET Cells(cfg.width, cfg.height) :
              /\ Cardinality(best) =
                     RoundHalfEven(cfg.width * cfg.height * cfg.percent_best_land, 100)
              /\ world'.grid = InitGrid(cfg, best)
        /\ \A c \in DOMAIN world'.grid :
              /\ world'.grid[c].current_grain = world'.grid[c].max_grain
              /\ world'.grid[c].max_grain \in Nat
    ]_vars

\* C33: after construction and after every tick the World holds exactly
\* num_turtles turtles, their ids are 0 .. num_turtles - 1 without
\* duplicates, and before the first tick they stand on pairwise distinct
\* cells.  Stated for grids with at least one cell.
C33_PopulationAndIds ==
    Ready /\ world.width >= 1 /\ world.height >= 1 =>
        /\ Len(world.turtles) = world.num_turtles
        /\ IdsOf(world.turtles) = 0 .. world.num_turtles - 1
        /\ \A i, j \in 1 .. Len(world.turtles) :
              i # j => world.turtles[i].id # world.turtles[j].id
        /\ ticks = 0 =>
              \A i, j \in 1 .. Len(world.turtles) :
                  i # j => Position(world.turtles[i]) # Position(world.turtles[j])

\* every turtle is alive, and the metrics of the last tick show it
AllAlive ==
    /\ \A t \in TurtleSet : t.wealth > 0 /\ t.age < t.life_expectancy
    /\ ticks >= 1 =>
          /\ result.min_wealth > 0
          /\ result.total_wealth > 0
          /\ Len(result.lorenz_list) = LorenzMaxX + 1
          /\ \A t \in TurtleSet : Max(0, t.wealth) = t.wealth

C35_CapacityWithinGlobalMax ==
    Ready /\ 0 <= world.percent_best_land /\ world.percent_best_land <= 100 =>
        \A p \in Patches : 0 <= p.max_grain /\ p.max_grain <= world.max_grain

\* C37: no agent's age reaches max_life_expectancy at the end of a tick, and
\* in a tick an agent's age either advances by one or is reset to 0 by its
\* rebirth: every agent id is reborn at least once in any window of
\* max_life_expectancy consecutive ticks.
C37_RebornWithinLifetime ==
    /\ [](Ready => \A t \in TurtleSet : t.age < world.max_life_expectancy)
    /\ [][TickStep =>
            \A id \in IdsOf(world.turtles) :
                LET old == ById(world.turtles, id)
                    new == ById(world'.turtles, id)
                IN  /\ id \in IdsOf(world'.turtles)
                    /\ new.age = 0 \/ new.age = old.age + 1
                    /\ new.age = 0 <=> DiesInTick(id)
         ]_vars

\* a whole window of max_life_expectancy ticks has passed and an agent that
\* was given the longest life has been reborn in it
C37_Witness ==
    /\ pc = "ready"
    /\ world.min_life_expectancy = MaxLife
    /\ ticks = world.max_life_expectancy
    /\ \E t \in TurtleSet : t.age = 0

\* the rearrangements of a list of n elements
Orders(n) == {p \in [1 .. n -> 1 .. n] : \A i, j \in 1 .. n : p[i] = p[j] => i = j}

\* world with its list of turtles rearranged by p
Rearranged(p) ==
    [world EXCEPT !.turtles = Strict([i \in 1 .. Len(world.turtles) |->
                                         world.turtles[p[i]]], Len(world.turtles))]

\* C30: the order of the list of turtles does not matter to the movement,
\* harvest and eat-and-age phases: with the list rearranged in any way the
\* phases leave the same grain on every patch, give every turtle (by id)
\* the same position, wealth and age, and the same ids are dead.
C30_OrderNotSignificant ==
    Ready =>
        \A p \in Orders(Len(world.turtles)) :
            LET listed == AfterEating(world)
                other == AfterEating(Rearranged(p))
            IN  /\ other.grid = listed.grid
                /\ IdsOf(other.turtles) = IdsOf(listed.turtles)
                /\ \A id \in IdsOf(listed.turtles) :
                      /\ Position(ById(other.turtles, id)) = Position(ById(listed.turtles, id))
                      /\ ById(other.turtles, id).wealth = ById(listed.turtles, id).wealth
                      /\ ById(other.turtles, id).age = ById(listed.turtles, id).age
                /\ IdsOf(DeadTurtles(other)) = IdsOf(DeadTurtles(listed))

\* two turtles that move onto the same patch and share its grain, one of
\* which dies in the tick while the other survives
C30_Witness ==
    /\ Ready
    /\ Len(world.turtles) = 2
    /\ \E c \in DOMAIN world.grid :
          /\ world.grid[c].current_grain > 0
          /\ Together(c) = IdsOf(world.turtles)
    /\ \E a, b \in IdsOf(world.turtles) : DiesInTick(a) /\ ~DiesInTick(b)

\* C21: the wealth of a turtle that replaces a dead one is the configured
\* uniform_wealth if uniform_wealth_flag is set, whatever inheritance_flag;
\* otherwise the wealth of the dead turtle at its death if inheritance_flag
\* is set and that wealth was positive; otherwise the metabolism of the new
\* turtle plus a value in 0 .. RandWealthMax.
C21_ReplacementWealth ==
    [][TickStep =>
        \A id \in IdsOf(world.turtles) :
            DiesInTick(id) =>
                LET new == ById(world'.turtles, id)
                IN  IF world.uniform_wealth_flag
                    THEN new.wealth = world.uniform_wealth * WealthUnit
                    ELSE IF world.inheritance_flag /\ WealthAfterEating(id) > 0
                    THEN new.wealth = WealthAfterEating(id)
                    ELSE \E bonus \in 0 .. RandWealthMax :
                            new.wealth = (new.metabolism + bonus) * WealthUnit
    ]_vars

\* an heir: under inheritance without uniform wealth, a turtle of age 0
\* that holds more than any draw can give
C21_Witness ==
    /\ Ticked
    /\ world.inheritance_flag /\ ~world.uniform_wealth_flag
    /\ \E t \in TurtleSet :
          t.age = 0 /\ t.wealth > (world.max_metabolism + RandWealthMax) * WealthUnit

\* C22: every turtle, initial or replacement, has 1 <= metabolism <=
\* max_metabolism, 1 <= vision <= max_vision and min_life_expectancy <=
\* life_expectancy <= max_life_expectancy.
C22_AttributesWithinBounds ==
    Ready =>
        \A t \in TurtleSet :
            /\ 1 <= t.metabolism /\ t.metabolism <= world.max_metabolism
            /\ 1 <= t.vision /\ t.vision <= world.max_vision
            /\ world.min_life_expectancy <= t.life_expectancy
            /\ t.life_expectancy <= world.max_life_expectancy

\* after two ticks, a replacement with the greatest metabolism allowed
\* beside a turtle with the least, the bounds being different
C22_Witness ==
    /\ pc = "ready" /\ ticks >= 2
    /\ world.max_metabolism = MaxMetabolism
    /\ \E t \in TurtleSet, u \in TurtleSet :
          t.age = 0 /\ t.metabolism = MaxMetabolism /\ u.metabolism = 1

\* the class of wealth w under maximum wealth M, by thirds of M
ThirdsClass(w, M) ==
    IF M = 0 THEN "poor"
    ELSE IF RatLeq(Rat(w, 1), Rat(M, 3)) THEN "poor"
    ELSE IF RatLeq(Rat(w, 1), Rat(2 * M, 3)) THEN "middle_class"
    ELSE "rich"

\* C24: after construction and after every tick the wealth_class stored
\* in each turtle, replacements included, is the class of its current
\* wealth under the current maximum wealth of the population, and the
\* poor, middle_class and rich counts a tick returns are the numbers of
\* turtles of those classes.
C24_ClassesUpToDate ==
    Ready =>
        /\ \A t \in TurtleSet :
              t.wealth_class = ThirdsClass(t.wealth, SeqMax(Wealths(world.turtles)))
        /\ ticks >= 1 =>
              \A k \in {"poor", "middle_class", "rich"} :
                  result[k] = Cardinality({i \in 1 .. Len(world.turtles) :
                                              world.turtles[i].wealth_class = k})

\* a tick has replaced a turtle, and the replacement is rich while the
\* other turtle is not
C24_Witness ==
    /\ Ticked
    /\ \E t \in TurtleSet, u \in TurtleSet :
          t.age = 0 /\ t.wealth_class = "rich" /\ u.wealth_class # "rich"
    /\ result.rich = 1

----------------------------------------------------------------------------
(* Properties of a batch (checked under BatchSpec) *)

Written == bpc = "written"
RunIds == 1 .. args.num_runs

\* C2: the rows handed to the csv writer are in strictly increasing run-id
\* order, whatever the number of runs, the pool size and the order in
\* which the runs completed.
C2_RowsInRunIdOrder ==
    \A i \in DOMAIN csv_rows : \A j \in DOMAIN csv_rows :
        i < j => csv_rows[i].run_id < csv_rows[j].run_id

\* three rows were written and run 1 was the last run to finish
C2_Witness ==
    /\ Written
    /\ Len(csv_rows) >= 3
    /\ completed[Len(completed)] = 1
    /\ completed[1] # 1

\* C3: for R >= 1 runs of K >= 1 ticks exactly R rows are written, with
\* the run ids 1..R once each; the row of run i is the metrics of the
\* World of run i after the last of exactly K tick calls, with the run id
\* added; no run is started twice or skipped; and rows are written only
\* once every run has finished.
C3_ExactlyOneRecordPerRun ==
    /\ \A i \in DOMAIN runs :
          runs[i].starts <= 1 /\ runs[i].tick_calls <= args.num_ticks
    /\ csv_rows # <<>> =>
          Written /\ \A i \in RunIds : \E k \in DOMAIN completed : completed[k] = i
    /\ (Written /\ args.num_runs >= 1 /\ args.num_ticks >= 1) =>
          /\ Len(csv_rows) = args.num_runs
          /\ Len(completed) = args.num_runs
          /\ \A i \in RunIds :
                /\ runs[i].starts = 1
                /\ runs[i].tick_calls = args.num_ticks
                /\ Cardinality({k \in DOMAIN csv_rows : csv_rows[k].run_id = i}) = 1
                /\ \A k \in DOMAIN csv_rows :
                      csv_rows[k].run_id = i =>
                        csv_rows[k] = SetItem(TickMetrics(runs[i].world), "run_id", i)

\* three runs of two ticks were written, two of them run by one worker
\* and the third by another
C3_Witness ==
    /\ Written
    /\ args.num_runs >= 3 /\ args.num_ticks >= 2
    /\ \E i \in RunIds, j \in RunIds, k \in RunIds :
          i # j /\ runs[i].worker = runs[j].worker /\ runs[k].worker # runs[i].worker

\* C4: no random-number state is shared between two runs of a batch:
\* every run starts from a generator no other run has drawn from, whatever
\* the worker that executes it and whatever that worker ran before.
C4_RunsShareNoRandomState ==
    \A i \in DOMAIN runs : runs[i].starts > 0 => runs[i].rng_at_start = 0

\* C5: a run that raises does not abort the batch: the batch ends aborted
\* only when no run has raised.
C5_FaultIsolatedPerRun ==
    bpc = "aborted" => \A w \in DOMAIN workers : workers[w].state # "raised"

\* C38: for every number of ticks K >= 0, K = 0 included, every record a
\* batch run hands to the writer has all nine fields run_id, min_wealth,
\* max_wealth, total_wealth, gini_index, lorenz_list, poor, middle_class
\* and rich.
C38_RecordsComplete ==
    \A i \in DOMAIN csv_rows : DOMAIN csv_rows[i] = fieldnames

\* the runs a worker has taken and not returned from
InProgress == {workers[w].run_id : w \in {v \in DOMAIN workers : workers[v].state # "idle"}}

\* C29: the pool has max(1, cpu_count - 1) workers, capped at the number of
\* runs R: never more than R, at least 1 for R >= 1, and never more than
\* min(workers, R) runs are in progress.
C29_PoolSizeCapped ==
    bpc # "init" =>
        /\ num_processes = Min(Max(1, args.cpu_count - 1), args.num_runs)
        /\ num_processes <= args.num_runs
        /\ args.num_runs >= 1 => num_processes >= 1
        /\ Len(workers) <= num_processes
        /\ Cardinality(InProgress) <= Min(num_processes, args.num_runs)
        /\ Cardinality({w \in DOMAIN workers : workers[w].state # "idle"})
              <= Min(num_processes, args.num_runs)

\* fewer runs than max(1, cpu_count - 1): the pool is capped at the one
\* run, which is in progress
C29_Witness ==
    /\ bpc = "pool"
    /\ args.num_runs = 1
    /\ Max(1, args.cpu_count - 1) > args.num_runs
    /\ num_processes = 1
    /\ Len(workers) = 1
    /\ InProgress = {1}

----------------------------------------------------------------------------
(* Properties of the metrics (checked under MetricsSpec) *)

Measured == pc = "measured"

\* the integer a float with e >= 0 stands for
RECURSIVE LimbsValue(_)
LimbsValue(a) == IF a = <<>> THEN 0 ELSE Head(a) + LimbBase * LimbsValue(Tail(a))
IntOfFloat(x) == x.sign * LimbsValue(x.m) * 2 ^ x.e

\* the wealths sorted ascending, by repeatedly taking the least
RECURSIVE SortedByMin(_)
SortedByMin(s) ==
    IF s = <<>> THEN <<>>
    ELSE LET k == CHOOSE i \in 1 .. Len(s) : \A j \in 1 .. Len(s) : s[i] <= s[j]
         IN  <<s[k]>> \o SortedByMin(SubSeq(s, 1, k - 1) \o SubSeq(s, k + 1, Len(s)))

\* the reference Gini index of a list of wealths
GiniReference(wealths) ==
    LET clamped == [i \in 1 .. Len(wealths) |-> IF wealths[i] < 0 THEN 0 ELSE wealths[i]]
        sorted == SortedByMin(clamped)
        n == Len(wealths)
        T == SeqSum(sorted)
    IN  IF n < 2 \/ T = 0 THEN Rat(0, 1)
        ELSE Rat(SetSum(1 .. n, [r \in 1 .. n |-> (2 * r - n - 1) * sorted[r]]), n * T)

WholeNumbers(wealths) == \A i \in 1 .. Len(wealths) : wealths[i] % WealthUnit = 0

Classified == pc \in {"classified", "measured"}

C10_GiniInUnitInterval ==
    Measured =>
        /\ result.gini_index.numerator.sign >= 0
        /\ ~FloatLess(result.gini_index.denominator, result.gini_index.numerator)

AllSameWealth(turtles) ==
    /\ turtles # <<>>
    /\ turtles[1].wealth > 0
    /\ \A i \in 1 .. Len(turtles) : turtles[i].wealth = turtles[1].wealth

\* |a - b| < 100 / n for ratios a and b
WithinOfDiagonal(a, b, n) == Abs(a.n * b.d - b.n * a.d) * n < 100 * a.d * b.d

\* C12: when all n turtles hold the same positive wealth, the Gini index
\* returned is exactly 0 and every Lorenz point (p, w) has |p - w| < 100 / n.
C12_EqualWealthGiniZero ==
    Measured /\ AllSameWealth(world.turtles) =>
        /\ result.gini_index.numerator.sign = 0
        /\ \A k \in 1 .. Len(result.lorenz_list) :
              WithinOfDiagonal(result.lorenz_list[k].pop, result.lorenz_list[k].wealth,
                               Len(world.turtles))

RatLess(a, b) == a.n * b.d < b.n * a.d

\* C13: the Lorenz list returned has LorenzMaxX + 1 points, starts at
\* (0, 0), ends at (100, 100) and decreases in neither coordinate.  The
\* last wealth percentage is the float (cumulative / total) * 100, which is
\* 100.0 exactly when the two sums are the same float.
C13_LorenzShape ==
    Measured =>
        LET l == result.lorenz_list
            end == LorenzEndFloat(world.turtles)
        IN  /\ Len(l) = LorenzMaxX + 1
            /\ l[1] = [pop |-> Rat(0, 1), wealth |-> Rat(0, 1)]
            /\ l[Len(l)] = [pop |-> Rat(100, 1), wealth |-> Rat(100, 1)]
            /\ end.cumulative_wealth = end.total_wealth
            /\ \A k \in 1 .. Len(l) - 1 :
                  /\ ~RatLess(l[k + 1].pop, l[k].pop)
                  /\ ~RatLess(l[k + 1].wealth, l[k].wealth)

----------------------------------------------------------------------------
(* Properties of the phases (checked under PhaseSpec) *)

GrowStep == pc = "harvested" /\ pc' = "grown"

\* C14: in the regrowth phase of tick(t), if t mod grain_growth_interval
\* = 0 the grain of every patch becomes min(max_grain, current_grain +
\* num_grain_grown) (8 of 10 grown by 4 gives 10), and otherwise the grain
\* of no patch changes.
C14_RegrowthPhase ==
    [][GrowStep =>
        \A c \in DOMAIN world.grid :
            world'.grid[c].current_grain =
                IF tick_count' % world.grain_growth_interval = 0
                THEN Min(world.grid[c].max_grain,
                         world.grid[c].current_grain + world.num_grain_grown)
                ELSE world.grid[c].current_grain
    ]_vars

\* after a growth tick with growth 4 an unvisited patch, which held 8 of
\* 10, is full, and a harvested patch of capacity 10 holds 4
C14_Witness ==
    /\ pc = "grown"
    /\ world.num_grain_grown = 4
    /\ tick_count % world.grain_growth_interval = 0
    /\ \E c \in DOMAIN world.grid :
          /\ world.grid[c].max_grain = 10 /\ world.grid[c].current_grain = 10
          /\ TurtlesOnPatch(world.turtles, c) = {}
    /\ \E c \in DOMAIN world.grid :
          world.grid[c].max_grain = 10 /\ world.grid[c].current_grain = 4

MoveStep == pc = "placed" /\ pc' = "moved"

North == <<0, -1>>
East == <<1, 0>>
South == <<0, 1>>
West == <<-1, 0>>
Compass == <<North, East, South, West>>

\* the cell k steps from turtle t in direction d
CellAhead(t, d, k) == <<t.x + d[1] * k, t.y + d[2] * k>>

\* the grain on the cells of the world at distances 1 .. vision from turtle
\* t in direction d, the world not continuing beyond its edges
VisibleGrain(t, d) ==
    LET seen == {k \in 1 .. t.vision : CellAhead(t, d, k) \in DOMAIN world.grid}
    IN  SetSum(seen, [k \in seen |-> world.grid[CellAhead(t, d, k)].current_grain])

\* the index of the earliest direction of greatest sum
BestIndex(t) ==
    CHOOSE i \in 1 .. 4 :
        /\ \A j \in 1 .. 4 : VisibleGrain(t, Compass[j]) <= VisibleGrain(t, Compass[i])
        /\ \A j \in 1 .. i - 1 : VisibleGrain(t, Compass[j]) < VisibleGrain(t, Compass[i])

BestCell(t) == CellAhead(t, Compass[BestIndex(t)], 1)

AllSumsEqual(t) ==
    \A i, j \in 1 .. 4 : VisibleGrain(t, Compass[i]) = VisibleGrain(t, Compass[j])

C17_StaysOnTieOrEdge ==
    [][MoveStep =>
        \A i \in 1 .. Len(world.turtles) :
            LET t == world.turtles[i]
            IN  AllSumsEqual(t) \/ BestCell(t) \notin DOMAIN world.grid =>
                    Position(world'.turtles[i]) = Position(t)
    ]_vars

Placed == pc \in {"ready", "placed", "moved", "harvested", "grown"}

\* C18: every turtle stands on a cell of the grid, 0 <= x < width and
\* 0 <= y < height, and the sum _grain_ahead returns for a direction is the
\* grain of the cells of the grid at distances 1 .. vision in that
\* direction, none beyond an edge and none from the opposite side.
C18_PositionsAndSightInGrid ==
    Placed =>
        \A t \in TurtleSet :
            /\ 0 <= t.x /\ t.x < world.width
            /\ 0 <= t.y /\ t.y < world.height
            /\ \A k \in 1 .. 4 :
                  GrainAhead(t, world, Directions[k]) = VisibleGrain(t, Compass[k])

\* a turtle of vision 2 has moved to the East edge of a 3 x 3 grid: it
\* sees nothing to the East and the grain of two cells to the West
C18_Witness ==
    /\ pc = "moved"
    /\ world.width = 3 /\ world.height = 3
    /\ \E t \in TurtleSet :
          /\ t.vision = 2 /\ t.x = 2 /\ t.y = 1
          /\ GrainAhead(t, world, Directions[2]) = 0
          /\ GrainAhead(t, world, Directions[4]) = 16
          /\ world.grid[<<2, 1>>].current_grain = 8

HarvestStep == pc = "moved" /\ pc' = "harvested"

\* the indices of the turtles on cell c
Occupants(c) == {i \in 1 .. Len(world.turtles) : Position(world.turtles[i]) = c}

ExactTimes(n, x) ==
    IF n = 0 THEN FloatZero ELSE Canon(x.sign, LimbsMulNat(x.m, n, 0), x.e)

\* C36: in the metrics poor + middle_class + rich is the number of agents,
\* at least one agent is rich when max_wealth > 0, min_wealth <=
\* max_wealth, and total_wealth is the sum of the agents' wealth, so that
\* n * min_wealth <= total_wealth <= n * max_wealth.
C36_MetricsConsistent ==
    Measured =>
        LET n == Len(world.turtles)
            total == GetTotalWealthFloat(world.turtles)
        IN  /\ result.poor + result.middle_class + result.rich = n
            /\ result.max_wealth > 0 => result.rich >= 1
            /\ result.min_wealth <= result.max_wealth
            /\ result.total_wealth = SeqSum(Wealths(world.turtles))
            /\ ~FloatLess(total, ExactTimes(n, WealthFloat(result.min_wealth)))
            /\ ~FloatLess(ExactTimes(n, WealthFloat(result.max_wealth)), total)

\* the sum of the k least of the wealths
PoorestSum(wealths, k) == SeqSum(Prefix(SortedByMin(wealths), Min(k, Len(wealths))))

\* C25: for a population of n turtles with positive total wealth and
\* every i in 1 .. LorenzMaxX, the i-th Lorenz point is
\* (100 * i / LorenzMaxX, 100 * (the wealth of the poorest
\* round(i * n / LorenzMaxX) turtles) / total wealth).
C25_LorenzPointRounded ==
    Measured /\ world.turtles # <<>> /\ result.total_wealth > 0 =>
        \A i \in 1 .. LorenzMaxX :
            result.lorenz_list[i + 1] =
                [pop |-> Rat(100 * i, LorenzMaxX),
                 wealth |-> Rat(100 * PoorestSum(Wealths(world.turtles),
                                    RoundHalfEven(i * Len(world.turtles), LorenzMaxX)),
                                result.total_wealth)]

----------------------------------------------------------------------------
(* Properties of a diffusion pass (checked under DiffuseSpec) *)

DiffuseStep == pc = "diffusing" /\ pc' = "diffused"

\* the in-grid 4-connected neighbours of cell c of the world
Around(c) ==
    {n \in DOMAIN world.grid : Abs(n[1] - c[1]) + Abs(n[2] - c[2]) = 1}

GrainOf(grid, c) == grid[c].current_grain

TotalGrain(grid) == SetSum(DOMAIN grid, [c \in DOMAIN grid |-> grid[c].current_grain])

\* C26: in one pass at rate r every cell keeps (1 - r) of its grain and
\* gives each of its in-grid neighbours r * grain / 4, the share an
\* interior cell gives, what would go off the grid being lost.
C26_EdgeSharesLost ==
    [][DiffuseStep =>
        \A c \in DOMAIN world.grid :
            DiffusionRateDen * 4 * GrainOf(world'.grid, c) =
                4 * (DiffusionRateDen - DiffusionRateNum) * GrainOf(world.grid, c)
                + SetSum(Around(c), [n \in Around(c) |->
                            DiffusionRateNum * GrainOf(world.grid, n)])
    ]_vars

\* every cell holding grain has four neighbours in the grid
InteriorOnly == \A c \in DOMAIN world.grid :
                    GrainOf(world.grid, c) > 0 => Cardinality(Around(c)) = 4

----------------------------------------------------------------------------
(* Properties of the interactive visualizer (checked under VizSpec) *)

HistoriesEmpty(v) ==
    /\ v.time_data = <<>>
    /\ v.poor_history = <<>>
    /\ v.middle_history = <<>>
    /\ v.rich_history = <<>>
    /\ v.gini_history = <<>>
    /\ v.current_lorenz_points = <<>>

\* C31: after SETUP the simulation is stopped, the tick counter is 0, the
\* history series are empty, and the world is a freshly constructed World
\* with the configuration, flags included, of the world the visualizer was
\* created with.
C31_SetupResets ==
    [][SetupSimulation =>
        /\ ~viz'.is_running
        /\ viz'.current_tick = 0
        /\ HistoriesEmpty(viz')
        /\ \E o \in ConstructOutcomes(cfg) : o.ok /\ world' = o.world
    ]_vars

\* a step in which World.tick was called
TickCalled == Len(viz'.tick_args) > Len(viz.tick_args)

\* a step in which a tick call raised: the plots were not updated
TickRaised == TickCalled /\ viz'.time_data = viz.time_data

\* C32: World.tick is called only while is_running is true; START/STOP
\* toggles is_running; the calls made since creation or SETUP carry the
\* indices 1, 2, 3, ... in order; and a tick that raises leaves
\* is_running false.
C32_TicksOnlyWhileRunning ==
    [][/\ TickCalled => viz.is_running
       /\ ToggleSimulation => viz'.is_running = ~viz.is_running
       /\ \A i \in 1 .. Len(viz'.tick_args) : viz'.tick_args[i] = i
       /\ TickRaised => ~viz'.is_running
    ]_vars

\* a world whose tick raises: stopped by the exception of the first call,
\* started again, and stopped by the exception of the second call
C32_Witness ==
    /\ pc = "ready"
    /\ cfg.grain_growth_interval = 0
    /\ viz.tick_args = <<1, 2>>
    /\ viz.time_data = <<>>
    /\ ~viz.is_running

====
